---- MODULE Spec2Model ----
(***************************************************************************)
(* Model of the zero-tokenizer core: the byte-level BPE tokenizer          *)
(* (src/src/bbpe/bbpe.rs), the word merge (src/src/base/word.rs), the heap *)
(* entries (src/src/base/merge_job.rs), the shared base                    *)
(* (src/src/base/tokenizer_base.rs) and the bidirectional vocabulary       *)
(* manager (src/src/base/vocab_manager.rs).                                *)
(*                                                                         *)
(* Maps (HashMap) are functions whose DOMAIN is the key set.  Byte strings *)
(* and id sequences are sequences of naturals.  base_chars stays empty in  *)
(* every modelled run (load_base_chars is not an operation of the model),  *)
(* so it is not a variable.                                                *)
(***************************************************************************)
EXTENDS Integers, Sequences, FiniteSets, Bags, TLC

\* ---------------------------------------------------------------- bounds
MaxTextLen == 3
MaxVocabSize == 258
MaxTrains == 2
MaxTrainBytes == 4
MaxIOTrainBytes == 2
MaxIOTrains == 1
MaxVmKey == 3
MaxLiveTrains == 2
MaxLiveTrainBytes == 3
MaxWordLen == 5
MaxBpeTrains == 2
MaxBpeTrainChars == 3
MaxBpeMerges == 3
MaxStreamSeqs == 3
MaxStreamTrains == 1
MaxCoreBytes == 6
MaxCoreTrains == 1
MaxCountWords == 3
MaxApplyLen == 4
MaxApplyRules == 2

\* ------------------------------------------------------- program constants
ByteValues == 256
MinVocabSize == 256

\* bytes the modelled texts are written with: 'a', 'b' and the space
Letters == {97, 98}
Space == 32
Alphabet == Letters \cup {Space}

RECURSIVE SeqsUpTo(_, _)
SeqsUpTo(S, n) ==
    IF n = 0 THEN {<< >>}
    ELSE LET shorter == SeqsUpTo(S, n - 1)
         IN shorter \cup {Append(s, x) : s \in {t \in shorter : Len(t) = n - 1}, x \in S}

Texts == SeqsUpTo(Alphabet, MaxTextLen)

\* u32 values are kept as their 32-bit pattern read as a signed integer (the
\* range of TLC's integers): a pattern below 0 stands for the value plus 2^32.
\* Subtraction of two small values then wraps by itself, and < is unsigned.
U32WrappingSub(a, b) == a - b
U32Less(a, b) == IF (a >= 0) = (b >= 0) THEN a < b ELSE b < 0

\* --------------------------------------------------------------- map helpers
EmptyMap == << >>
Put(f, k, v) == [x \in (DOMAIN f) \cup {k} |-> IF x = k THEN v ELSE f[x]]
Del(f, k) == [x \in (DOMAIN f) \ {k} |-> f[x]]

RECURSIVE SumFn(_)
SumFn(f) ==
    IF DOMAIN f = {} THEN 0
    ELSE LET x == CHOOSE y \in DOMAIN f : TRUE
         IN f[x] + SumFn([y \in (DOMAIN f) \ {x} |-> f[y]])

RECURSIVE Concat(_)
Concat(ss) == IF Len(ss) = 0 THEN << >> ELSE Head(ss) \o Concat(Tail(ss))

\* ------------------------------------------------------------ pre-tokenizer
IsLetter(b) == (b \in 65..90) \/ (b \in 97..122)
IsSpace(b) == b \in {9, 10, 11, 12, 13, 32}

RECURSIVE LetterRun(_, _)
LetterRun(text, p) ==
    IF p <= Len(text) /\ IsLetter(text[p]) THEN LetterRun(text, p + 1) ELSE p

RECURSIVE SpaceRun(_, _)
SpaceRun(text, p) ==
    IF p <= Len(text) /\ IsSpace(text[p]) THEN SpaceRun(text, p + 1) ELSE p

\* GPT4_PATTERN on texts of ASCII letters and spaces: the position after the
\* match that starts at p.  A letter starts "[^\r\n\p{L}\p{N}]?+\p{L}+" with
\* the optional character absent; a space followed by a letter starts the
\* same alternative; any other space run is taken by "\s+(?!\S)", which
\* leaves the last space to the following word, or whole at the end.
MatchEnd(text, p) ==
    IF IsLetter(text[p]) THEN LetterRun(text, p)
    ELSE IF p + 1 <= Len(text) /\ IsLetter(text[p + 1]) THEN LetterRun(text, p + 1)
    ELSE LET e == SpaceRun(text, p)
         IN IF e > Len(text) THEN e ELSE e - 1

RECURSIVE FindIter(_, _)
FindIter(text, p) ==
    IF p > Len(text) THEN << >>
    ELSE LET e == MatchEnd(text, p)
         IN <<SubSeq(text, p, e - 1)>> \o FindIter(text, e)

RECURSIVE SplitWhitespace(_, _)
SplitWhitespace(text, p) ==
    IF p > Len(text) THEN << >>
    ELSE IF IsSpace(text[p]) THEN SplitWhitespace(text, p + 1)
    ELSE LET RECURSIVE WordEnd(_)
             WordEnd(q) == IF q <= Len(text) /\ ~IsSpace(text[q]) THEN WordEnd(q + 1) ELSE q
             e == WordEnd(p)
         IN <<SubSeq(text, p, e - 1)>> \o SplitWhitespace(text, e)

split_text(text) ==
    LET parts == FindIter(text, 1)
    IN IF Len(parts) = 0 /\ Len(text) # 0 THEN SplitWhitespace(text, 1) ELSE parts

\* ------------------------------------------------------------------ Word
pairs(ids) == {<<ids[i], ids[i + 1]>> : i \in 1..(Len(ids) - 1)}
Occurrences(p, ids) == Cardinality({i \in 1..(Len(ids) - 1) : ids[i] = p[1] /\ ids[i + 1] = p[2]})

\* the loop of merge_pair stepping over the id that follows a merge
RECURSIVE MergePairLoop_SkipNext(_, _, _, _, _)
MergePairLoop_SkipNext(ids, i, pair, new_id, affected_pairs) ==
    IF ~(i < Len(ids) - 1) THEN [ids |-> ids, deltas |-> affected_pairs, panic |-> FALSE]
    ELSE IF ids[i + 1] = pair[1] /\ ids[i + 2] = pair[2]
    THEN LET merged == [k \in 1..(Len(ids) - 1) |->
                           IF k < i + 1 THEN ids[k]
                           ELSE IF k = i + 1 THEN new_id ELSE ids[k + 1]]
         IN MergePairLoop_SkipNext(merged, i + 2, pair, new_id, affected_pairs)
    ELSE MergePairLoop_SkipNext(ids, i + 1, pair, new_id, affected_pairs)

\* the loop of merge_pair; i is the code's 0-based index
RECURSIVE MergePairLoop(_, _, _, _, _)
MergePairLoop(ids, i, pair, new_id, affected_pairs) ==
    IF ~(i < Len(ids) - 1) THEN [ids |-> ids, deltas |-> affected_pairs, panic |-> FALSE]
    ELSE IF ids[i + 1] = pair[1] /\ ids[i + 2] = pair[2]
    THEN LET lost_left == IF i > 0 THEN << <<(<<ids[i], ids[i + 1]>>), -1>> >> ELSE << >>
             lost_right == IF i + 2 < Len(ids)
                           THEN << <<(<<ids[i + 2], ids[i + 3]>>), -1>> >> ELSE << >>
             merged == [k \in 1..(Len(ids) - 1) |->
                           IF k < i + 1 THEN ids[k]
                           ELSE IF k = i + 1 THEN new_id ELSE ids[k + 1]]
             new_left == IF i > 0 THEN << <<(<<merged[i], merged[i + 1]>>), 1>> >> ELSE << >>
             new_right == IF i < Len(merged) - 1
                          THEN << <<(<<merged[i + 1], merged[i + 2]>>), 1>> >> ELSE << >>
         IN MergePairLoop(merged, i, pair, new_id,
                          affected_pairs \o lost_left \o lost_right \o new_left \o new_right)
    ELSE MergePairLoop(ids, i + 1, pair, new_id, affected_pairs)

\* merge_pair reporting the created pairs alone, not the lost ones
merge_pair_CreatedOnly(ids, pair, new_id) ==
    IF Len(ids) = 0 THEN [ids |-> ids, deltas |-> << >>, panic |-> TRUE]
    ELSE LET r == MergePairLoop(ids, 0, pair, new_id, << >>)
         IN [r EXCEPT !.deltas = SelectSeq(r.deltas, LAMBDA d : d[2] > 0)]

\* ids.len() - 1 is a usize subtraction: on an empty word it panics (debug)
\* or wraps and the first index access panics (release)
merge_pair(ids, pair, new_id) ==
    IF Len(ids) = 0 THEN [ids |-> ids, deltas |-> << >>, panic |-> TRUE]
    ELSE MergePairLoop(ids, 0, pair, new_id, << >>)

\* ------------------------------------------------------------- MergeJob
MergeJob(pair, count, pos) == [pair |-> pair, count |-> count, pos |-> pos]

PairLess(p, q) == p[1] < q[1] \/ (p[1] = q[1] /\ p[2] < q[2])

\* the order by count alone
MergeJobCmp_CountOnly(x, y) ==
    IF x.count # y.count THEN (IF x.count < y.count THEN -1 ELSE 1) ELSE 0

\* the order that takes, of two jobs with one count, the greater pair as greater
MergeJobCmp_LargerPairFirst(x, y) ==
    IF x.count # y.count THEN (IF x.count < y.count THEN -1 ELSE 1)
    ELSE IF PairLess(x.pair, y.pair) THEN -1
    ELSE IF PairLess(y.pair, x.pair) THEN 1 ELSE 0

\* Ord for MergeJob: -1, 0, 1 for Less, Equal, Greater
MergeJobCmp(x, y) ==
    IF x.count # y.count THEN (IF x.count < y.count THEN -1 ELSE 1)
    ELSE IF PairLess(y.pair, x.pair) THEN -1
    ELSE IF PairLess(x.pair, y.pair) THEN 1 ELSE 0

\* the entries heap.pop() may return: those no entry is greater than
HeapTops(heap) == {x \in BagToSet(heap) : \A y \in BagToSet(heap) : MergeJobCmp(y, x) <= 0}
HeapPush(heap, job) == heap (+) SetToBag({job})
HeapRemove(heap, job) == heap (-) SetToBag({job})

\* ------------------------------------------------- greedy merge application
\* a scan that leaves a pair to the pair overlapping it on the right when
\* that one has the smaller new id
RECURSIVE ScanMerges_SmallerIdFirst(_, _, _)
ScanMerges_SmallerIdFirst(ids, i, mrg) ==
    IF ~(i < Len(ids) - 1) THEN << >>
    ELSE IF <<ids[i + 1], ids[i + 2]>> \in DOMAIN mrg
            /\ ~(/\ i + 1 < Len(ids) - 1
                 /\ <<ids[i + 2], ids[i + 3]>> \in DOMAIN mrg
                 /\ mrg[<<ids[i + 2], ids[i + 3]>>] < mrg[<<ids[i + 1], ids[i + 2]>>])
    THEN << <<i, mrg[<<ids[i + 1], ids[i + 2]>>]>> >> \o ScanMerges_SmallerIdFirst(ids, i + 2, mrg)
    ELSE ScanMerges_SmallerIdFirst(ids, i + 1, mrg)

\* first while loop of apply_merges: the (position, new_id) list of one scan
RECURSIVE ScanMerges(_, _, _)
ScanMerges(ids, i, mrg) ==
    IF ~(i < Len(ids) - 1) THEN << >>
    ELSE IF <<ids[i + 1], ids[i + 2]>> \in DOMAIN mrg
    THEN << <<i, mrg[<<ids[i + 1], ids[i + 2]>>]>> >> \o ScanMerges(ids, i + 2, mrg)
    ELSE ScanMerges(ids, i + 1, mrg)

\* RebuildIds stepping over only the first token of a merged pair
RECURSIVE RebuildIds_StepOne(_, _, _, _)
RebuildIds_StepOne(ids, i, merges_to_apply, next_merge_idx) ==
    IF ~(i < Len(ids)) THEN << >>
    ELSE IF next_merge_idx < Len(merges_to_apply) /\ merges_to_apply[next_merge_idx + 1][1] = i
    THEN <<merges_to_apply[next_merge_idx + 1][2]>>
             \o RebuildIds_StepOne(ids, i + 1, merges_to_apply, next_merge_idx + 1)
    ELSE <<ids[i + 1]>> \o RebuildIds_StepOne(ids, i + 1, merges_to_apply, next_merge_idx)

\* second while loop of apply_merges: rebuild the sequence
RECURSIVE RebuildIds(_, _, _, _)
RebuildIds(ids, i, merges_to_apply, next_merge_idx) ==
    IF ~(i < Len(ids)) THEN << >>
    ELSE IF next_merge_idx < Len(merges_to_apply) /\ merges_to_apply[next_merge_idx + 1][1] = i
    THEN <<merges_to_apply[next_merge_idx + 1][2]>>
             \o RebuildIds(ids, i + 2, merges_to_apply, next_merge_idx + 1)
    ELSE <<ids[i + 1]>> \o RebuildIds(ids, i + 1, merges_to_apply, next_merge_idx)

\* apply_merges giving up after its first pass
apply_merges_OnePass(ids, mrg) ==
    IF ~(Len(ids) >= 2) THEN ids
    ELSE LET merges_to_apply == ScanMerges(ids, 0, mrg)
         IN IF Len(merges_to_apply) = 0 THEN ids
            ELSE RebuildIds(ids, 0, merges_to_apply, 0)

RECURSIVE apply_merges(_, _)
apply_merges(ids, mrg) ==
    IF ~(Len(ids) >= 2) THEN ids
    ELSE LET merges_to_apply == ScanMerges(ids, 0, mrg)
         IN IF Len(merges_to_apply) = 0 THEN ids
            ELSE apply_merges(RebuildIds(ids, 0, merges_to_apply, 0), mrg)

\* the inner loop of the trait's apply_merges: one pass over tokens from i
RECURSIVE TraitPass(_, _, _)
TraitPass(tokens, i, mrg) ==
    IF ~(i < Len(tokens)) THEN << >>
    ELSE IF i + 1 < Len(tokens) /\ <<tokens[i + 1], tokens[i + 2]>> \in DOMAIN mrg
    THEN <<mrg[<<tokens[i + 1], tokens[i + 2]>>]>> \o TraitPass(tokens, i + 2, mrg)
    ELSE <<tokens[i + 1]>> \o TraitPass(tokens, i + 1, mrg)

\* Tokenizer::apply_merges of BBPE: passes as long as one has merged; a pass
\* has set changed exactly when it has made the sequence shorter
RECURSIVE Tokenizer_apply_merges(_, _)
Tokenizer_apply_merges(tokens, mrg) ==
    LET new_tokens == TraitPass(tokens, 0, mrg)
    IN IF Len(new_tokens) < Len(tokens) THEN Tokenizer_apply_merges(new_tokens, mrg)
       ELSE new_tokens

\* ------------------------------------------------------------ encode/decode
Result(ok, kind, id, out) == [ok |-> ok, kind |-> kind, id |-> id, out |-> out]
Ok(out) == Result(TRUE, "none", 0, out)
Err(kind, id) == Result(FALSE, kind, id, << >>)

MissingBytes(part, vr) == {k \in 1..Len(part) : <<part[k]>> \notin DOMAIN vr}
FirstMissing(part, vr) == part[CHOOSE k \in MissingBytes(part, vr) : \A j \in MissingBytes(part, vr) : k <= j]
ByteIds(part, vr) == [k \in 1..Len(part) |-> vr[<<part[k]>>]]

\* one of the two loops of encode over a list of parts: the first unknown byte
\* ends the call with an error, otherwise the merged ids are appended
RECURSIVE EncodeParts(_, _, _, _)
EncodeParts(parts, vr, mrg, result) ==
    IF Len(parts) = 0 THEN Ok(result)
    ELSE LET part == Head(parts)
         IN IF Len(part) = 0 THEN EncodeParts(Tail(parts), vr, mrg, result)
            ELSE IF MissingBytes(part, vr) # {} THEN Err("UnknownByte", FirstMissing(part, vr))
            ELSE EncodeParts(Tail(parts), vr, mrg, result \o apply_merges(ByteIds(part, vr), mrg))

encode(text, vr, mrg) ==
    LET first == EncodeParts(split_text(text), vr, mrg, << >>)
    IN IF first.ok /\ Len(first.out) = 0
       THEN EncodeParts(SplitWhitespace(text, 1), vr, mrg, << >>)
       ELSE first

IsCont(b) == b \in 128..191

\* String::from_utf8: well-formed UTF-8 only
RECURSIVE Utf8Valid(_, _)
Utf8Valid(bytes, p) ==
    IF p > Len(bytes) THEN TRUE
    ELSE LET b == bytes[p]
             has(n) == p + n <= Len(bytes)
         IN IF b < 128 THEN Utf8Valid(bytes, p + 1)
            ELSE IF b \in 194..223
            THEN has(1) /\ IsCont(bytes[p + 1]) /\ Utf8Valid(bytes, p + 2)
            ELSE IF b \in 224..239
            THEN /\ has(2)
                 /\ IsCont(bytes[p + 1]) /\ IsCont(bytes[p + 2])
                 /\ (b = 224 => bytes[p + 1] >= 160)
                 /\ (b = 237 => bytes[p + 1] <= 159)
                 /\ Utf8Valid(bytes, p + 3)
            ELSE IF b \in 240..244
            THEN /\ has(3)
                 /\ IsCont(bytes[p + 1]) /\ IsCont(bytes[p + 2]) /\ IsCont(bytes[p + 3])
                 /\ (b = 240 => bytes[p + 1] >= 144)
                 /\ (b = 244 => bytes[p + 1] <= 143)
                 /\ Utf8Valid(bytes, p + 4)
            ELSE FALSE

\* DecodeBytes skipping the ids it does not know
RECURSIVE DecodeBytes_SkipUnknown(_, _, _)
DecodeBytes_SkipUnknown(tokens, voc, bytes) ==
    IF Len(tokens) = 0 THEN Ok(bytes)
    ELSE IF Head(tokens) \in DOMAIN voc
    THEN DecodeBytes_SkipUnknown(Tail(tokens), voc, bytes \o voc[Head(tokens)])
    ELSE DecodeBytes_SkipUnknown(Tail(tokens), voc, bytes)

RECURSIVE DecodeBytes(_, _, _)
DecodeBytes(tokens, voc, bytes) ==
    IF Len(tokens) = 0 THEN Ok(bytes)
    ELSE IF Head(tokens) \in DOMAIN voc
    THEN DecodeBytes(Tail(tokens), voc, bytes \o voc[Head(tokens)])
    ELSE Err("IdNotFound", Head(tokens))

decode(tokens, voc) ==
    LET r == DecodeBytes(tokens, voc, << >>)
    IN IF ~r.ok THEN r
       ELSE IF Utf8Valid(r.out, 1) THEN r ELSE Err("Utf8", 0)

\* ------------------------------------------------------------- init_vocab
\* init_vocab numbering the byte tokens from 1
init_vocab_FromOne ==
    [vocab |-> [id \in 1..ByteValues |-> <<id - 1>>],
     vocab_rev |-> [tok \in {<<b>> : b \in 0..(ByteValues - 1)} |-> tok[1] + 1]]

\* with no base characters: id b carries the single byte b
init_vocab ==
    [vocab |-> [id \in 0..(ByteValues - 1) |-> <<id>>],
     vocab_rev |-> [tok \in {<<b>> : b \in 0..(ByteValues - 1)} |-> tok[1]]]

\* ------------------------------------------------- train: words of the texts
PartIds(parts, vr) ==
    LET kept == SelectSeq(parts, LAMBDA part : Len(part) # 0)
    IN [k \in 1..Len(kept) |-> ByteIds(kept[k], vr)]

PartsPanic(parts, vr) == \E k \in 1..Len(parts) : MissingBytes(parts[k], vr) # {}

\* the loop over texts of train: the regex parts of every text, and the
\* whitespace words of a text as long as no word has been produced at all;
\* a byte missing from vocab_rev panics
RECURSIVE TrainWords(_, _, _)
TrainWords(txts, vr, acc) ==
    IF Len(txts) = 0 THEN [words |-> acc, panic |-> FALSE]
    ELSE LET text == Head(txts)
             parts == split_text(text)
             fallback == SplitWhitespace(text, 1)
         IN IF PartsPanic(parts, vr) THEN [words |-> acc, panic |-> TRUE]
            ELSE LET w1 == acc \o PartIds(parts, vr)
                 IN IF Len(w1) = 0
                    THEN IF PartsPanic(fallback, vr) THEN [words |-> acc, panic |-> TRUE]
                         ELSE TrainWords(Tail(txts), vr, w1 \o PartIds(fallback, vr))
                    ELSE TrainWords(Tail(txts), vr, w1)

\* ------------------------------------------------- count_pairs_parallel
LocalCounts(word, count) == [p \in pairs(word) |-> Occurrences(p, word) * count]

\* a reduce closure that stores the local count instead of adding it
MergeCounts_Overwrite(acc, local_counts) ==
    [p \in (DOMAIN acc) \cup (DOMAIN local_counts) |->
        IF p \in DOMAIN local_counts THEN local_counts[p] ELSE acc[p]]

MergeCounts(acc, local_counts) ==
    [p \in (DOMAIN acc) \cup (DOMAIN local_counts) |->
        (IF p \in DOMAIN acc THEN acc[p] ELSE 0)
        + (IF p \in DOMAIN local_counts THEN local_counts[p] ELSE 0)]

\* the maps the parallel reduce over the words lo..hi can return: the words
\* are split among the workers at any point and the partial maps are merged
\* pairwise; an empty range gives the identity HashMap::new()
RECURSIVE ReduceCounts(_, _, _, _)
ReduceCounts(wds, cnts, lo, hi) ==
    IF lo > hi THEN {EmptyMap}
    ELSE IF lo = hi THEN {MergeCounts(EmptyMap, LocalCounts(wds[lo], cnts[lo]))}
    ELSE UNION {{MergeCounts(l, r) : l \in ReduceCounts(wds, cnts, lo, mid),
                                     r \in ReduceCounts(wds, cnts, mid + 1, hi)} :
                mid \in lo..(hi - 1)}

\* word indices are the code's 0-based indices
WhereToUpdate(wds) ==
    [p \in UNION {pairs(wds[i]) : i \in 1..Len(wds)} |->
        {i - 1 : i \in {j \in 1..Len(wds) : p \in pairs(wds[j])}}]

\* the results count_pairs_parallel can return
count_pairs_parallel(wds, cnts) ==
    {[pair_counts |-> c, where_to_update |-> WhereToUpdate(wds)] :
        c \in ReduceCounts(wds, cnts, 1, Len(wds))}

\* heap build of train_core_incremental
BuildHeap(pc0, where_to_update) ==
    SetToBag({MergeJob(p, pc0[p], where_to_update[p]) :
                 p \in {q \in DOMAIN where_to_update :
                           (IF q \in DOMAIN pc0 THEN pc0[q] ELSE 0) > 0}})

\* ------------------------------------------- one iteration of the merge loop
\* t is the state of a training run: the tokenizer's vocab, vocab_rev and
\* merges and the locals words, counts, pair_counts, heap, merges_done,
\* num_merges and initial_vocab_size
IsStale(t, top) ==
    IF top.pair \in DOMAIN t.pair_counts
    THEN t.pair_counts[top.pair] # top.count
    ELSE TRUE

\* the sum of the deltas of a pair with the decrements left out
DeltaSum_IgnoreDecrements(deltas, q) ==
    SumFn([k \in {j \in 1..Len(deltas) : deltas[j][1] = q /\ deltas[j][2] > 0} |-> deltas[k][2]])

DeltaSum(deltas, q) ==
    SumFn([k \in {j \in 1..Len(deltas) : deltas[j][1] = q} |-> deltas[k][2]])

\* NewTokenBytes with the two halves in the wrong order
NewTokenBytes_Swapped(voc, pair) == voc[pair[2]] \o voc[pair[1]]

\* a new token made of the bytes of the first half alone
NewTokenBytes_FirstHalf(voc, pair) == voc[pair[1]]

\* the bytes of the token a merge creates
NewTokenBytes(voc, pair) == voc[pair[1]] \o voc[pair[2]]

\* an accepted entry whose publish step keeps the counts that dropped to 0 or below
AcceptMerge_KeepNonPositive(t, top, heap1) ==
    LET new_id == t.initial_vocab_size + t.merges_done
        new_token_bytes == NewTokenBytes(t.vocab, top.pair)
        res == [idx \in top.pos |-> merge_pair(t.words[idx + 1], top.pair, new_id)]
        words2 == [k \in 1..Len(t.words) |->
                      IF (k - 1) \in top.pos THEN res[k - 1].ids ELSE t.words[k]]
        touched == UNION {{res[idx].deltas[j][1] : j \in 1..Len(res[idx].deltas)} : idx \in top.pos}
        updated_pairs == [q \in touched |->
                             SumFn([idx \in top.pos |->
                                       DeltaSum(res[idx].deltas, q) * t.counts[idx + 1]])]
        updated_where == [q \in touched |->
                             {idx \in top.pos :
                                 \E j \in 1..Len(res[idx].deltas) : res[idx].deltas[j][1] = q}]
        entry == [q \in touched |->
                     (IF q \in DOMAIN t.pair_counts THEN t.pair_counts[q] ELSE 0)
                     + updated_pairs[q]]
        removed == {}
        pair_counts2 == [q \in ((DOMAIN t.pair_counts) \cup touched) \ removed |->
                            IF q \in touched THEN entry[q] ELSE t.pair_counts[q]]
        heap2 == heap1 (+) SetToBag({MergeJob(q, entry[q], updated_where[q]) :
                                        q \in touched \ removed})
    IN IF top.pair[1] \notin DOMAIN t.vocab \/ top.pair[2] \notin DOMAIN t.vocab
          \/ \E idx \in top.pos : res[idx].panic
       THEN [t EXCEPT !.panic = TRUE, !.heap = heap1,
                      !.merges = Put(t.merges, top.pair, new_id)]
       ELSE [t EXCEPT !.merges = Put(t.merges, top.pair, new_id),
                      !.vocab = Put(t.vocab, new_id, new_token_bytes),
                      !.vocab_rev = Put(t.vocab_rev, new_token_bytes, new_id),
                      !.words = words2,
                      !.pair_counts = pair_counts2,
                      !.heap = heap2,
                      !.merges_done = t.merges_done + 1]

\* an accepted entry of the merge loop: the rule and the token are recorded,
\* the words at top.pos merged and the changed counts published
AcceptMerge(t, top, heap1) ==
    LET new_id == t.initial_vocab_size + t.merges_done
        new_token_bytes == NewTokenBytes(t.vocab, top.pair)
        res == [idx \in top.pos |-> merge_pair(t.words[idx + 1], top.pair, new_id)]
        words2 == [k \in 1..Len(t.words) |->
                      IF (k - 1) \in top.pos THEN res[k - 1].ids ELSE t.words[k]]
        touched == UNION {{res[idx].deltas[j][1] : j \in 1..Len(res[idx].deltas)} : idx \in top.pos}
        updated_pairs == [q \in touched |->
                             SumFn([idx \in top.pos |->
                                       DeltaSum(res[idx].deltas, q) * t.counts[idx + 1]])]
        updated_where == [q \in touched |->
                             {idx \in top.pos :
                                 \E j \in 1..Len(res[idx].deltas) : res[idx].deltas[j][1] = q}]
        entry == [q \in touched |->
                     (IF q \in DOMAIN t.pair_counts THEN t.pair_counts[q] ELSE 0)
                     + updated_pairs[q]]
        removed == {q \in touched : entry[q] <= 0}
        pair_counts2 == [q \in ((DOMAIN t.pair_counts) \cup touched) \ removed |->
                            IF q \in touched THEN entry[q] ELSE t.pair_counts[q]]
        heap2 == heap1 (+) SetToBag({MergeJob(q, entry[q], updated_where[q]) :
                                        q \in touched \ removed})
    IN IF top.pair[1] \notin DOMAIN t.vocab \/ top.pair[2] \notin DOMAIN t.vocab
          \/ \E idx \in top.pos : res[idx].panic
       THEN [t EXCEPT !.panic = TRUE, !.heap = heap1,
                      !.merges = Put(t.merges, top.pair, new_id)]
       ELSE [t EXCEPT !.merges = Put(t.merges, top.pair, new_id),
                      !.vocab = Put(t.vocab, new_id, new_token_bytes),
                      !.vocab_rev = Put(t.vocab_rev, new_token_bytes, new_id),
                      !.words = words2,
                      !.pair_counts = pair_counts2,
                      !.heap = heap2,
                      !.merges_done = t.merges_done + 1]

\* the loop condition letting one merge more through
LoopRuns_OneMore(t) == ~t.panic /\ ~U32Less(t.num_merges, t.merges_done) /\ t.heap # EmptyBag

\* the merge loop goes on: while merges_done < num_merges, until heap.pop() is None
LoopRuns(t) == ~t.panic /\ U32Less(t.merges_done, t.num_merges) /\ t.heap # EmptyBag

\* an iteration that leaves a stale entry in the heap
IterateWith_KeepStale(t, top) ==
    LET heap1 == HeapRemove(t.heap, top)
    IN IF IsStale(t, top) THEN t
       ELSE AcceptMerge(t, top, heap1)

\* an iteration that counts a skipped entry as a merge
IterateWith_CountStale(t, top) ==
    LET heap1 == HeapRemove(t.heap, top)
    IN IF IsStale(t, top) THEN [t EXCEPT !.heap = heap1, !.merges_done = @ + 1]
       ELSE AcceptMerge(t, top, heap1)

IterateWith(t, top) ==
    LET heap1 == HeapRemove(t.heap, top)
    IN IF IsStale(t, top) THEN [t EXCEPT !.heap = heap1]
       ELSE AcceptMerge(t, top, heap1)

\* the states one iteration can lead to: heap.pop() returns any of the
\* entries that compare greatest
Iterate(t) == {IterateWith(t, top) : top \in HeapTops(t.heap)}

\* train_core_incremental numbering the new ids from 256 in every training
StartCore_FirstIdAfterBytes(voc, vr, wds, cnts, vocab_size, cp) ==
       [vocab |-> voc, vocab_rev |-> vr, merges |-> EmptyMap,
        words |-> wds, counts |-> cnts,
        pair_counts |-> cp.pair_counts,
        heap |-> BuildHeap(cp.pair_counts, cp.where_to_update),
        merges_done |-> 0,
        num_merges |-> U32WrappingSub(vocab_size, Cardinality(DOMAIN voc)),
        initial_vocab_size |-> ByteValues,
        panic |-> FALSE]

\* train_core_incremental up to the merge loop; num_merges is a u32
\* subtraction, wrapped in a release build (the debug build panics, see Train)
StartCore(voc, vr, wds, cnts, vocab_size, cp) ==
       [vocab |-> voc, vocab_rev |-> vr, merges |-> EmptyMap,
        words |-> wds, counts |-> cnts,
        pair_counts |-> cp.pair_counts,
        heap |-> BuildHeap(cp.pair_counts, cp.where_to_update),
        merges_done |-> 0,
        num_merges |-> U32WrappingSub(vocab_size, Cardinality(DOMAIN voc)),
        initial_vocab_size |-> Cardinality(DOMAIN voc),
        panic |-> FALSE]

\* the merge loop run to its end, heap.pop() returning one of the greatest
\* entries each time
RECURSIVE RunLoop(_)
RunLoop(t) ==
    IF LoopRuns(t) THEN RunLoop(CHOOSE t2 \in Iterate(t) : TRUE) ELSE t

\* new_internal followed by train(train_texts, vocab_size) with a vocabulary
\* size of at least 256: the state of the run when the merge loop has ended
train_fresh(train_texts, vocab_size) ==
    LET tw == TrainWords(train_texts, init_vocab.vocab_rev, << >>)
        cnts == [k \in 1..Len(tw.words) |-> 1]
        cp == CHOOSE c \in count_pairs_parallel(tw.words, cnts) : TRUE
    IN RunLoop(StartCore(init_vocab.vocab, init_vocab.vocab_rev, tw.words, cnts, vocab_size, cp))

\* ------------------------------------------------------------ VocabManager
\* a VocabManager is the record of its two maps
VocabManager_new == [id_to_value |-> EmptyMap, value_to_id |-> EmptyMap]

None == <<"None">>
Some(x) == <<"Some", x>>

\* insert that leaves the entry of the id the value was stored under
VocabManager_insert_KeepOldId(vm, id, value) ==
    LET v2i == IF id \in DOMAIN vm.id_to_value /\ vm.id_to_value[id] # value
               THEN Del(vm.value_to_id, vm.id_to_value[id])
               ELSE vm.value_to_id
        i2v == vm.id_to_value
    IN [vm |-> [id_to_value |-> Put(i2v, id, value), value_to_id |-> Put(v2i, value, id)],
        ret |-> IF id \in DOMAIN i2v THEN Some(i2v[id]) ELSE None]

\* insert that leaves the reverse entry of the value the id carried
VocabManager_insert_KeepOldValue(vm, id, value) ==
    LET v2i == vm.value_to_id
        i2v == IF value \in DOMAIN v2i /\ v2i[value] # id
               THEN Del(vm.id_to_value, v2i[value])
               ELSE vm.id_to_value
    IN [vm |-> [id_to_value |-> Put(i2v, id, value), value_to_id |-> Put(v2i, value, id)],
        ret |-> IF id \in DOMAIN i2v THEN Some(i2v[id]) ELSE None]

VocabManager_insert(vm, id, value) ==
    LET v2i == IF id \in DOMAIN vm.id_to_value /\ vm.id_to_value[id] # value
               THEN Del(vm.value_to_id, vm.id_to_value[id])
               ELSE vm.value_to_id
        i2v == IF value \in DOMAIN v2i /\ v2i[value] # id
               THEN Del(vm.id_to_value, v2i[value])
               ELSE vm.id_to_value
    IN [vm |-> [id_to_value |-> Put(i2v, id, value), value_to_id |-> Put(v2i, value, id)],
        ret |-> IF id \in DOMAIN i2v THEN Some(i2v[id]) ELSE None]

VocabManager_remove_by_id(vm, id) ==
    IF id \in DOMAIN vm.id_to_value
    THEN [vm |-> [id_to_value |-> Del(vm.id_to_value, id),
                  value_to_id |-> Del(vm.value_to_id, vm.id_to_value[id])],
          ret |-> Some(vm.id_to_value[id])]
    ELSE [vm |-> vm, ret |-> None]

VocabManager_remove_by_value(vm, value) ==
    IF value \in DOMAIN vm.value_to_id
    THEN [vm |-> [id_to_value |-> Del(vm.id_to_value, vm.value_to_id[value]),
                  value_to_id |-> Del(vm.value_to_id, value)],
          ret |-> Some(vm.value_to_id[value])]
    ELSE [vm |-> vm, ret |-> None]

VocabManager_clear(vm) == VocabManager_new

\* validate: the results it can give, {"ok"} or the kinds of the
\* inconsistencies the iteration over id_to_value can meet first
VocabManager_validate(vm) ==
    IF Cardinality(DOMAIN vm.id_to_value) # Cardinality(DOMAIN vm.value_to_id)
    THEN {"SizeMismatch"}
    ELSE LET found == {IF vm.id_to_value[id] \notin DOMAIN vm.value_to_id
                       THEN "MissingReverse"
                       ELSE IF vm.value_to_id[vm.id_to_value[id]] # id
                       THEN "ReverseMismatch"
                       ELSE "ok" : id \in DOMAIN vm.id_to_value} \ {"ok"}
         IN IF found = {} THEN {"ok"} ELSE found

\* ------------------------------------------------------------- model file
\* A line is its first blank-separated field (key), the pattern text when it
\* is the pattern line, and the numbers that follow the key.
Line(key, pat, nums) == [key |-> key, pat |-> pat, nums |-> nums]

\* the members of S between lo and hi, in ascending order
RECURSIVE IdsInRange(_, _, _)
IdsInRange(S, lo, hi) ==
    IF lo > hi THEN << >>
    ELSE IF lo = hi THEN (IF lo \in S THEN <<lo>> ELSE << >>)
    ELSE LET mid == (lo + hi) \div 2
         IN IdsInRange(S, lo, mid) \o IdsInRange(S, mid + 1, hi)

SetMin(S) == CHOOSE x \in S : \A y \in S : x <= y
SetMax(S) ==
    LET top == SetMin(S) + Cardinality(S) - 1
    IN IF S = SetMin(S)..top THEN top ELSE CHOOSE x \in S : \A y \in S : y <= x
Reverse(sq) == [k \in 1..Len(sq) |-> sq[Len(sq) + 1 - k]]

\* HashMap iteration has no specified order: the writer takes the keys in
\* ascending or in descending order
IdOrder(S, asc) ==
    IF S = {} THEN << >>
    ELSE LET up == IdsInRange(S, SetMin(S), SetMax(S))
         IN IF asc THEN up ELSE Reverse(up)

RECURSIVE PairOrderUp(_)
PairOrderUp(S) ==
    IF S = {} THEN << >>
    ELSE LET m == CHOOSE x \in S : \A y \in S : x = y \/ PairLess(x, y)
         IN <<m>> \o PairOrderUp(S \ {m})

PairOrder(S, asc) == IF asc THEN PairOrderUp(S) ELSE Reverse(PairOrderUp(S))

\* TokenizerBase::save
TokenizerBase_save(pat, bv, asc) ==
    LET ids == IdOrder(DOMAIN bv.id_to_value, asc)
    IN <<Line("pattern:", pat, << >>),
         Line("vocab_size:", "", <<Cardinality(DOMAIN bv.id_to_value)>>)>>
       \o [k \in 1..Len(ids) |-> Line(bv.id_to_value[ids[k]], "", <<ids[k]>>)]

\* BBPETokenizer::save: the base part, then the lines appended to it
BBPE_save(pat, bv, voc, mrg, asc) ==
    LET ids == IdOrder(DOMAIN voc, asc)
        prs == PairOrder(DOMAIN mrg, asc)
    IN TokenizerBase_save(pat, bv, asc)
       \o <<Line("base_chars:", "", <<0>>)>>
       \o <<Line("vocab:", "", <<Cardinality(DOMAIN voc)>>)>>
       \o [k \in 1..Len(ids) |-> Line("vocab_entry:", "", <<ids[k]>> \o voc[ids[k]])]
       \o <<Line("merges:", "", <<Cardinality(DOMAIN mrg)>>)>>
       \o [k \in 1..Len(prs) |-> Line("merge:", "", <<prs[k][1], prs[k][2], mrg[prs[k]]>>)]

\* the vocabulary loop of TokenizerBase::load from line k on: a line is split
\* at its first blank into token and id text, and the id text must be one
\* JSON number (serde_json rejects trailing characters)
RECURSIVE BaseLoadEntries(_, _, _)
BaseLoadEntries(lines, k, bv) ==
    IF k > Len(lines) THEN [ok |-> TRUE, kind |-> "none", base_vocab |-> bv]
    ELSE LET line == lines[k]
         IN IF line.pat = "" /\ Len(line.nums) = 0
            THEN [ok |-> FALSE, kind |-> "InvalidVocabLine", base_vocab |-> bv]
            ELSE IF line.pat # "" \/ Len(line.nums) # 1
            THEN [ok |-> FALSE, kind |-> "IdDeserialize", base_vocab |-> bv]
            ELSE BaseLoadEntries(lines, k + 1,
                                 VocabManager_insert(bv, line.nums[1], line.key).vm)

\* TokenizerBase::load on an existing file
TokenizerBase_load(lines, pat) ==
    LET pat1 == IF Len(lines) >= 1 /\ lines[1].key = "pattern:" THEN lines[1].pat ELSE pat
        r == BaseLoadEntries(lines, 3, VocabManager_new)
    IN [ok |-> r.ok, kind |-> r.kind, base_vocab |-> r.base_vocab, pattern |-> pat1]

\* the line loop of BBPETokenizer::load; st holds the section flags as sec
\* and the maps read so far
RECURSIVE BBPELoadLines(_, _, _)
BBPELoadLines(lines, k, st) ==
    IF k > Len(lines) THEN st
    ELSE LET line == lines[k]
             header == line.key \in {"base_chars:", "vocab:", "merges:"}
                       /\ Len(line.nums) >= 1
         IN IF header THEN BBPELoadLines(lines, k + 1, [st EXCEPT !.sec = line.key])
            ELSE IF line.key = "vocab_entry:" /\ st.sec = "vocab:" /\ Len(line.nums) >= 2
            THEN IF \E j \in 2..Len(line.nums) : line.nums[j] > 255
                 THEN [st EXCEPT !.ok = FALSE, !.kind = "ByteParse"]
                 ELSE BBPELoadLines(lines, k + 1,
                        [st EXCEPT !.vocab = Put(@, line.nums[1], Tail(line.nums)),
                                   !.vocab_rev = Put(@, Tail(line.nums), line.nums[1])])
            ELSE IF line.key = "merge:" /\ st.sec = "merges:" /\ Len(line.nums) = 3
            THEN BBPELoadLines(lines, k + 1,
                   [st EXCEPT !.merges = Put(@, <<line.nums[1], line.nums[2]>>, line.nums[3])])
            ELSE BBPELoadLines(lines, k + 1, st)

BBPE_load_lines(lines) ==
    BBPELoadLines(lines, 1, [ok |-> TRUE, kind |-> "none", sec |-> "",
                             vocab |-> EmptyMap, vocab_rev |-> EmptyMap, merges |-> EmptyMap])

\* ============================================ character-level BPE (bpe.rs)
\* a text is the sequence of its chars, a char its code point; a token of the
\* vocabulary is a text

\* 0x110000, the size the target vocabulary size is measured from
UnicodeLimit == 1114112
\* U+FFFD
ReplacementChar == 65533

\* char::from_u32 gives a char
IsScalar(n) == n >= 0 /\ n < UnicodeLimit /\ n \notin 55296..57343

\* Tokenizer::_new_internal, with the locals of a training and the history:
\* trainings made, chars given, chars of the last corpus, and as v0 the size
\* of the vocabulary when the last training entered its merge loop
BPE_new ==
    [vocab |-> VocabManager_new, merges |-> EmptyMap, next_token_id |-> 0,
     pc |-> "idle", words |-> << >>, pair_counts |-> EmptyMap, heap |-> EmptyBag,
     merges_done |-> 0, num_merges |-> 0,
     last |-> [op |-> "new", status |-> "ok", arg |-> << >>, res |-> << >>],
     cvec |-> << >>,
     trains |-> 0, train_chars |-> 0, corpus |-> {}, v0 |-> 0]

\* the loop over the chars of train: a code point that is no id of the
\* vocabulary is inserted with its char, and next_token_id kept above it
RECURSIVE BPE_RegisterChars(_, _)
BPE_RegisterChars(chars, tok) ==
    IF Len(chars) = 0 THEN tok
    ELSE LET code_point == Head(chars)
             tok2 == IF code_point \in DOMAIN tok.vocab.id_to_value THEN tok
                     ELSE [tok EXCEPT
                             !.vocab = VocabManager_insert(@, code_point, <<code_point>>).vm,
                             !.next_token_id = IF code_point >= @ THEN code_point + 1 ELSE @]
         IN BPE_RegisterChars(Tail(chars), tok2)

\* the words of train: the non-empty parts of every text, each the sequence
\* of its code points
RECURSIVE BPE_TrainWords(_)
BPE_TrainWords(txts) ==
    IF Len(txts) = 0 THEN << >>
    ELSE SelectSeq(split_text(Head(txts)), LAMBDA part : Len(part) # 0)
         \o BPE_TrainWords(Tail(txts))

\* the counts map of train_from_iterator: every piece of every sequence of
\* the iterator, with the number of times it occurs
StreamCounts(seqs) ==
    LET pieces == Concat([k \in 1..Len(seqs) |-> FindIter(seqs[k], 1)])
    IN [chunk \in {pieces[k] : k \in 1..Len(pieces)} |->
           Cardinality({k \in 1..Len(pieces) : pieces[k] = chunk})]

\* the orders the iteration of a HashMap with the keys S can take
IterOrders(S) ==
    {sq \in [1..Cardinality(S) -> S] :
        \A i, j \in 1..Cardinality(S) : i # j => sq[i] # sq[j]}

\* _train_core_incremental up to the merge loop
BPE_StartCore(tok, wds, vocab_size, cp) ==
    LET vocab_size1 == IF vocab_size < UnicodeLimit THEN UnicodeLimit ELSE vocab_size
    IN [tok EXCEPT !.merges = EmptyMap,
                   !.words = wds,
                   !.pair_counts = cp.pair_counts,
                   !.heap = BuildHeap(cp.pair_counts, cp.where_to_update),
                   !.merges_done = 0,
                   !.num_merges = vocab_size1 - UnicodeLimit]

\* an accepted entry of the merge loop: the rule is recorded under the next
\* token id, the token is inserted when both halves are ids of the vocabulary
BPE_AcceptMerge(t, top, heap1) ==
    LET new_id == t.next_token_id
        i2v == t.vocab.id_to_value
        vocab2 == IF top.pair[1] \in DOMAIN i2v /\ top.pair[2] \in DOMAIN i2v
                  THEN VocabManager_insert(t.vocab, new_id,
                                           i2v[top.pair[1]] \o i2v[top.pair[2]]).vm
                  ELSE t.vocab
        res == [idx \in top.pos |-> merge_pair(t.words[idx + 1], top.pair, new_id)]
        words2 == [k \in 1..Len(t.words) |->
                      IF (k - 1) \in top.pos THEN res[k - 1].ids ELSE t.words[k]]
        touched == UNION {{res[idx].deltas[j][1] : j \in 1..Len(res[idx].deltas)} : idx \in top.pos}
        updated_pairs == [q \in touched |->
                             SumFn([idx \in top.pos |-> DeltaSum(res[idx].deltas, q)])]
        updated_where == [q \in touched |->
                             {idx \in top.pos :
                                 \E j \in 1..Len(res[idx].deltas) : res[idx].deltas[j][1] = q}]
        entry == [q \in touched |->
                     (IF q \in DOMAIN t.pair_counts THEN t.pair_counts[q] ELSE 0)
                     + updated_pairs[q]]
        removed == {q \in touched : entry[q] <= 0}
        pair_counts2 == [q \in ((DOMAIN t.pair_counts) \cup touched) \ removed |->
                            IF q \in touched THEN entry[q] ELSE t.pair_counts[q]]
        heap2 == heap1 (+) SetToBag({MergeJob(q, entry[q], updated_where[q]) :
                                        q \in touched \ removed})
        t2 == [t EXCEPT !.next_token_id = new_id + 1,
                        !.merges = Put(t.merges, top.pair, new_id),
                        !.vocab = vocab2]
    IN IF \E idx \in top.pos : res[idx].panic
       THEN [t2 EXCEPT !.pc = "panicked", !.heap = heap1,
                       !.last = [t.last EXCEPT !.status = "panic"]]
       ELSE [t2 EXCEPT !.words = words2,
                       !.pair_counts = pair_counts2,
                       !.heap = heap2,
                       !.merges_done = t.merges_done + 1]

\* while merges_done < num_merges, until heap.pop() is None
BPE_LoopRuns(t) == t.merges_done < t.num_merges /\ t.heap # EmptyBag

BPE_IterateWith(t, top) ==
    LET heap1 == HeapRemove(t.heap, top)
    IN IF IsStale(t, top) THEN [t EXCEPT !.heap = heap1]
       ELSE BPE_AcceptMerge(t, top, heap1)

\* the states one iteration can lead to
BPE_Iterate(t) == {BPE_IterateWith(t, top) : top \in HeapTops(t.heap)}

\* the ids of the chars of a piece in _encode_internal: the id of the char
\* in the vocabulary, its code point when it has none
BPE_CharIds(piece, vm) ==
    [k \in 1..Len(piece) |->
        IF <<piece[k]>> \in DOMAIN vm.value_to_id THEN vm.value_to_id[<<piece[k]>>]
        ELSE piece[k]]

\* the results _apply_merges can return: as long as a pair of the table lies
\* in the word, the first such pair the loop over the HashMap comes to is
\* merged wherever it occurs and the loop starts again; the order of the
\* loop is the map's. word.ids().len() - 1 is a usize subtraction: on an
\* empty word the first rule looked at ends the call with a panic
RECURSIVE BPE_apply_merges(_, _)
BPE_apply_merges(ids, mrg) ==
    IF DOMAIN mrg = {} THEN {[ids |-> ids, panic |-> FALSE]}
    ELSE IF Len(ids) = 0 THEN {[ids |-> ids, panic |-> TRUE]}
    ELSE LET found == {p \in DOMAIN mrg : Occurrences(p, ids) > 0}
         IN IF found = {} THEN {[ids |-> ids, panic |-> FALSE]}
            ELSE UNION {BPE_apply_merges(merge_pair(ids, p, mrg[p]).ids, mrg) : p \in found}

\* the loop over the pieces of _encode_internal: a piece that is a token of
\* the vocabulary gives its id, any other the merged ids of its chars
RECURSIVE BPE_EncodePieces(_, _, _, _)
BPE_EncodePieces(pieces, vm, mrg, result) ==
    IF Len(pieces) = 0 THEN result
    ELSE LET piece == Head(pieces)
         IN IF Len(piece) = 0 THEN BPE_EncodePieces(Tail(pieces), vm, mrg, result)
            ELSE IF piece \in DOMAIN vm.value_to_id
            THEN BPE_EncodePieces(Tail(pieces), vm, mrg, result \o <<vm.value_to_id[piece]>>)
            ELSE BPE_EncodePieces(Tail(pieces), vm, mrg,
                                  result \o apply_merges(BPE_CharIds(piece, vm), mrg))

BPE_encode(text, vm, mrg) == BPE_EncodePieces(FindIter(text, 1), vm, mrg, << >>)

\* decode_internal: the token of an id of the vocabulary, the char of any
\* other id, U+FFFD when the id is no char
RECURSIVE BPE_decode(_, _)
BPE_decode(tokens, vm) ==
    IF Len(tokens) = 0 THEN << >>
    ELSE LET token == Head(tokens)
             text == IF token \in DOMAIN vm.id_to_value THEN vm.id_to_value[token]
                     ELSE IF IsScalar(token) THEN <<token>>
                     ELSE <<ReplacementChar>>
         IN text \o BPE_decode(Tail(tokens), vm)

\* ================================================================== state
VARIABLES
    vocab,              \* BBPETokenizer.vocab: id -> bytes
    vocab_rev,          \* BBPETokenizer.vocab_rev: bytes -> id
    merges,             \* BBPETokenizer.merges: (id, id) -> new id
    pattern,            \* BBPETokenizer.base.pattern
    base_vocab,         \* BBPETokenizer.base.vocab, a VocabManager
    pc,                 \* "idle", "loop" (inside the merge loop of train) or "panicked"
    texts,              \* argument of the train call in progress
    words, counts, pair_counts, heap, merges_done, num_merges, initial_vocab_size,
                        \* locals of train_core_incremental
    file,               \* the model file at the path: NoFile, or File(its lines)
    last,               \* the last call on the tokenizer and what it returned
    trains,             \* number of train calls that reached the training core
    train_bytes,        \* history: bytes of training text given so far
    saved,              \* history: what the tokenizer held when the file was written
    fresh,              \* history: the tokenizer is as constructed
    twin,               \* a second, independent run of the training in progress
    vm, vm_ret,         \* a VocabManager on its own and what its last call returned
    bpe                 \* a character-level BPE Tokenizer, the call in progress on it and its history

tokenizer == <<vocab, vocab_rev, merges, pattern, base_vocab>>
locals == <<texts, words, counts, pair_counts, heap, merges_done, num_merges, initial_vocab_size>>
vars == <<vocab, vocab_rev, merges, pattern, base_vocab, pc,
          texts, words, counts, pair_counts, heap, merges_done, num_merges, initial_vocab_size,
          file, last, trains, train_bytes, saved, fresh, twin, vm, vm_ret, bpe>>

GPT4_PATTERN == "GPT4_PATTERN"
NoFile == [exists |-> FALSE, lines |-> << >>]
File(lines) == [exists |-> TRUE, lines |-> lines]

Call(op, status, arg, res) == [op |-> op, status |-> status, arg |-> arg, res |-> res]

\* the training run in progress, as the record the loop operators work on
Cur ==
    [vocab |-> vocab, vocab_rev |-> vocab_rev, merges |-> merges,
     words |-> words, counts |-> counts, pair_counts |-> pair_counts, heap |-> heap,
     merges_done |-> merges_done, num_merges |-> num_merges,
     initial_vocab_size |-> initial_vocab_size, panic |-> FALSE]

Install(t) ==
    /\ vocab' = t.vocab
    /\ vocab_rev' = t.vocab_rev
    /\ merges' = t.merges
    /\ words' = t.words
    /\ counts' = t.counts
    /\ pair_counts' = t.pair_counts
    /\ heap' = t.heap
    /\ merges_done' = t.merges_done
    /\ num_merges' = t.num_merges
    /\ initial_vocab_size' = t.initial_vocab_size

NoLocals ==
    /\ texts' = << >>
    /\ words' = << >>
    /\ counts' = << >>
    /\ pair_counts' = EmptyMap
    /\ heap' = EmptyBag
    /\ merges_done' = 0
    /\ num_merges' = 0
    /\ initial_vocab_size' = 0

NotSaved == [vocab |-> EmptyMap, merges |-> EmptyMap, trains |-> 0]

NoTwin ==
    [vocab |-> EmptyMap, vocab_rev |-> EmptyMap, merges |-> EmptyMap,
     words |-> << >>, counts |-> << >>, pair_counts |-> EmptyMap, heap |-> EmptyBag,
     merges_done |-> 0, num_merges |-> 0, initial_vocab_size |-> 0, panic |-> FALSE]

\* BBPETokenizer::new_internal
Init ==
    /\ vocab = init_vocab.vocab
    /\ vocab_rev = init_vocab.vocab_rev
    /\ merges = EmptyMap
    /\ pattern = GPT4_PATTERN
    /\ base_vocab = VocabManager_new
    /\ pc = "idle"
    /\ texts = << >>
    /\ words = << >>
    /\ counts = << >>
    /\ pair_counts = EmptyMap
    /\ heap = EmptyBag
    /\ merges_done = 0
    /\ num_merges = 0
    /\ initial_vocab_size = 0
    /\ file = NoFile
    /\ last = Call("new", "ok", << >>, Ok(<< >>))
    /\ trains = 0
    /\ train_bytes = 0
    /\ saved = NotSaved
    /\ fresh = TRUE
    /\ twin = NoTwin
    /\ vm = VocabManager_new
    /\ vm_ret = None
    /\ bpe = BPE_new

\* ================================================================== train

\* encode and decode take &self and change nothing of the tokenizer, and a
\* train call that fails its vocabulary size check returns before it touches
\* anything: every state of the tokenizer is reached by runs without them, so
\* a run is followed up to the first such call, and the calls that change the
\* tokenizer are taken from the states none has been made in
NoQuery ==
    /\ last.op \notin {"encode", "decode"}
    /\ ~(last.op = "train" /\ last.status = "err")

\* the vocabulary size check letting the size just below the minimum through
VocabSizeTooSmall_OffByOne(vocab_size) == vocab_size < MinVocabSize - 1

\* the vocabulary size check of train
VocabSizeTooSmall(vocab_size) == vocab_size < MinVocabSize

\* train, from the call to the entry of the merge loop
Train(train_texts, vocab_size, max_trains, max_bytes) ==
    /\ pc = "idle"
    /\ NoQuery
    /\ train_bytes + Len(Concat(train_texts)) <= max_bytes
    /\ IF VocabSizeTooSmall(vocab_size)
       THEN /\ last' = Call("train", "err", vocab_size, Err("VocabSizeBelow", MinVocabSize))
            /\ UNCHANGED <<tokenizer, pc, locals, file, trains, train_bytes, saved, fresh>>
       ELSE /\ trains < max_trains
            /\ trains' = trains + 1
            /\ train_bytes' = train_bytes + Len(Concat(train_texts))
            /\ fresh' = FALSE
            /\ UNCHANGED <<pattern, base_vocab, file, saved>>
            /\ LET iv == IF DOMAIN vocab = {} THEN init_vocab
                         ELSE [vocab |-> vocab, vocab_rev |-> vocab_rev]
                   tw == TrainWords(train_texts, iv.vocab_rev, << >>)
                   cnts == [k \in 1..Len(tw.words) |-> 1]
                   Panicked ==
                       /\ pc' = "panicked"
                       /\ vocab' = iv.vocab
                       /\ vocab_rev' = iv.vocab_rev
                       /\ last' = Call("train", "panic", vocab_size, Ok(<< >>))
                       /\ UNCHANGED <<merges, locals>>
                   Started ==
                       /\ pc' = "loop"
                       /\ \E cp \in count_pairs_parallel(tw.words, cnts) :
                             Install(StartCore(iv.vocab, iv.vocab_rev, tw.words, cnts,
                                               vocab_size, cp))
                       /\ texts' = train_texts
                       /\ last' = Call("train", "running", vocab_size, Ok(<< >>))
               IN IF tw.panic THEN Panicked
                  ELSE IF vocab_size < Cardinality(DOMAIN iv.vocab)
                  THEN Panicked \/ Started
                  ELSE Started

\* one iteration of the merge loop
MergeStep ==
    /\ pc = "loop"
    /\ LoopRuns(Cur)
    /\ \E t \in Iterate(Cur) :
          /\ Install(t)
          /\ texts' = texts
          /\ pc' = IF t.panic THEN "panicked" ELSE "loop"
          /\ last' = IF t.panic THEN [last EXCEPT !.status = "panic"] ELSE last
    /\ UNCHANGED <<pattern, base_vocab, file, trains, train_bytes, saved, fresh>>

\* a return of train while the merge loop could go on
TrainEnd_Early ==
    /\ pc = "loop"
    /\ pc' = "idle"
    /\ last' = [last EXCEPT !.status = "ok"]
    /\ NoLocals
    /\ UNCHANGED <<tokenizer, file, trains, train_bytes, saved, fresh>>

\* the merge loop has ended: train returns Ok and the locals are dropped
TrainEnd ==
    /\ pc = "loop"
    /\ ~LoopRuns(Cur)
    /\ pc' = "idle"
    /\ last' = [last EXCEPT !.status = "ok"]
    /\ NoLocals
    /\ UNCHANGED <<tokenizer, file, trains, train_bytes, saved, fresh>>

\* ========================================================== encode / decode
DecodeIds == {97, 200, 256, 999999}
DecodeInputs == SeqsUpTo(DecodeIds, 2)

EncodeCall(text) ==
    /\ pc = "idle"
    /\ NoQuery
    /\ LET r == encode(text, vocab_rev, merges)
       IN last' = Call("encode", IF r.ok THEN "ok" ELSE "err", text, r)
    /\ UNCHANGED <<tokenizer, pc, locals, file, trains, train_bytes, saved, fresh>>

DecodeCall(tokens) ==
    /\ pc = "idle"
    /\ NoQuery
    /\ LET r == decode(tokens, vocab)
       IN last' = Call("decode", IF r.ok THEN "ok" ELSE "err", tokens, r)
    /\ UNCHANGED <<tokenizer, pc, locals, file, trains, train_bytes, saved, fresh>>

\* ======================================================= save / load / new
\* save(path): the file is created or overwritten
Save ==
    /\ pc = "idle"
    /\ NoQuery
    /\ \E asc \in BOOLEAN : file' = File(BBPE_save(pattern, base_vocab, vocab, merges, asc))
    /\ saved' = [vocab |-> vocab, merges |-> merges, trains |-> trains]
    /\ last' = Call("save", "ok", << >>, Ok(<< >>))
    /\ UNCHANGED <<tokenizer, pc, locals, trains, train_bytes, fresh>>

\* load(path) on a tokenizer holding tok: base.load(path)? first, which may
\* already have replaced the pattern and the base vocabulary when it fails;
\* then the maps are cleared and the BBPE sections read
BBPE_load(f, tok) ==
    IF ~f.exists
    THEN [tok EXCEPT !.ok = FALSE, !.kind = "OpenFailed"]
    ELSE LET b == TokenizerBase_load(f.lines, tok.pattern)
             r == BBPE_load_lines(f.lines)
         IN IF ~b.ok
            THEN [tok EXCEPT !.ok = FALSE, !.kind = b.kind,
                             !.pattern = b.pattern, !.base_vocab = b.base_vocab]
            ELSE [ok |-> r.ok, kind |-> r.kind,
                  pattern |-> b.pattern, base_vocab |-> b.base_vocab,
                  vocab |-> r.vocab, vocab_rev |-> r.vocab_rev, merges |-> r.merges]

Load ==
    /\ pc = "idle"
    /\ NoQuery
    /\ LET r == BBPE_load(file, [ok |-> TRUE, kind |-> "none", pattern |-> pattern,
                                 base_vocab |-> base_vocab, vocab |-> vocab,
                                 vocab_rev |-> vocab_rev, merges |-> merges])
       IN /\ pattern' = r.pattern
          /\ base_vocab' = r.base_vocab
          /\ vocab' = r.vocab
          /\ vocab_rev' = r.vocab_rev
          /\ merges' = r.merges
          /\ last' = Call("load", IF r.ok THEN "ok" ELSE "err", fresh,
                          IF r.ok THEN Ok(<< >>) ELSE Err(r.kind, 0))
    /\ fresh' = FALSE
    /\ UNCHANGED <<pc, locals, file, trains, train_bytes, saved>>

\* files that save did not write: an empty file, a file whose only line is
\* text that is not in the model format, and a file of the two lines
\* "vocab: 1" and "vocab_entry: 256 256", whose entry names a byte above 255
ForeignFiles ==
    {<< >>, <<Line("invalid", "", << >>)>>,
     <<Line("vocab:", "", <<1>>), Line("vocab_entry:", "", <<256, 256>>)>>}

\* such a file is put at the path
WriteForeign ==
    /\ pc = "idle"
    /\ NoQuery
    /\ \E f \in ForeignFiles : file' = File(f)
    /\ file' # file
    /\ saved' = NotSaved
    /\ UNCHANGED <<tokenizer, pc, locals, last, trains, train_bytes, fresh>>

\* a new tokenizer takes the place of the current one (BBPETokenizer::new_internal)
New ==
    /\ pc = "idle"
    /\ NoQuery
    /\ vocab' = init_vocab.vocab
    /\ vocab_rev' = init_vocab.vocab_rev
    /\ merges' = EmptyMap
    /\ pattern' = GPT4_PATTERN
    /\ base_vocab' = VocabManager_new
    /\ fresh' = TRUE
    /\ last' = Call("new", "ok", << >>, Ok(<< >>))
    /\ UNCHANGED <<pc, locals, file, trains, train_bytes, saved>>

\* ============================================================ VocabManager
VmIds == 0..MaxVmKey
VmValues == {<<b>> : b \in 0..MaxVmKey}

VmInsert(id, value) ==
    LET r == VocabManager_insert(vm, id, value)
    IN vm' = r.vm /\ vm_ret' = r.ret

VmRemoveById(id) ==
    LET r == VocabManager_remove_by_id(vm, id)
    IN vm' = r.vm /\ vm_ret' = r.ret

VmRemoveByValue(value) ==
    LET r == VocabManager_remove_by_value(vm, value)
    IN vm' = r.vm /\ vm_ret' = r.ret

VmClear == vm' = VocabManager_clear(vm) /\ vm_ret' = None

\* ==================================================================== Word
WordIds == {97, 98}
WordInputs == SeqsUpTo(WordIds, MaxWordLen)
NewIds == {97, 256}

\* a call of Word::merge_pair on a word of its own; the result depends on the
\* arguments alone, so a run is followed up to its first call
MergePairCall(ids, pair, new_id) ==
    /\ last.op \notin {"merge_pair", "_apply_merges"}
    /\ LET r == merge_pair(ids, pair, new_id)
       IN last' = Call("merge_pair", IF r.panic THEN "panic" ELSE "ok",
                       [ids |-> ids, pair |-> pair, new_id |-> new_id], r)
    /\ UNCHANGED <<tokenizer, pc, locals, file, trains, train_bytes, saved, fresh>>

\* id sequences and merge tables apply_merges is called with: any table of
\* up to MaxApplyRules rules over the ids, learned by a training or not
ApplyIds == {97, 256}
ApplyTables ==
    UNION {[keys -> {97, 256, 257}] :
              keys \in {k \in SUBSET (ApplyIds \X ApplyIds) : Cardinality(k) <= MaxApplyRules}}

\* a call of the two apply_merges of BBPE on arguments of its own; a run is
\* followed up to its first call
ApplyMergesCall(ids, mrg) ==
    /\ last.op # "apply_merges"
    /\ last' = Call("apply_merges", "ok", [ids |-> ids, merges |-> mrg],
                    [inherent |-> apply_merges(ids, mrg),
                     trait |-> Tokenizer_apply_merges(ids, mrg)])
    /\ UNCHANGED <<tokenizer, pc, locals, file, trains, train_bytes, saved, fresh>>

\* a call of _apply_merges of the character-level tokenizer on a token list
\* and a merge table of its own; a run is followed up to its first call
BpeApplyMergesCall(tokens, mrg) ==
    /\ last.op \notin {"merge_pair", "_apply_merges"}
    /\ \E r \in BPE_apply_merges(tokens, mrg) :
          last' = Call("_apply_merges", IF r.panic THEN "panic" ELSE "ok",
                       [tokens |-> tokens, merges |-> mrg], r.ids)
    /\ UNCHANGED <<tokenizer, pc, locals, file, trains, train_bytes, saved, fresh>>

\* words and counts count_pairs_parallel is called with: words with no pair,
\* with one pair, with two pairs and with a pair that occurs twice, and
\* counts of one and of more than one
CountWords ==
    SeqsUpTo({<<97>>, <<97, 98>>, <<98, 97>>, <<97, 97, 97>>, <<97, 98, 97>>},
             MaxCountWords) \ {<< >>}

\* a call of count_pairs_parallel on words and counts of its own: any result
\* the reduce can return; a run is followed up to its first call
CountPairsCall(wds, cnts) ==
    /\ last.op # "count_pairs_parallel"
    /\ \E cp \in count_pairs_parallel(wds, cnts) :
          last' = Call("count_pairs_parallel", "ok", [words |-> wds, counts |-> cnts], cp)
    /\ UNCHANGED <<tokenizer, pc, locals, file, trains, train_bytes, saved, fresh>>

\* ================================================================== specs
bbpe_vars == <<vocab, vocab_rev, merges, pattern, base_vocab, pc,
               texts, words, counts, pair_counts, heap, merges_done, num_merges,
               initial_vocab_size, file, last, trains, train_bytes, saved, fresh>>

\* corpora of one text, and corpora of two words of two letters
TwoLetterWords == {<<x, y>> : x, y \in Letters}
TrainInputs == {<<text>> : text \in Texts} \cup {<<t1, t2>> : t1, t2 \in TwoLetterWords}
IOTrainInputs == {<<text>> : text \in SeqsUpTo(Alphabet, MaxIOTrainBytes)}
VocabSizes == (MinVocabSize - 1)..MaxVocabSize

\* ============================================ the character-level Tokenizer
BpeChars == {97, 98, 99}
BpeTexts == SeqsUpTo(BpeChars, MaxTextLen)
BpeTrainInputs == {<<text>> : text \in BpeTexts}
\* target sizes: two below 0x110000, and the sizes 0x110000 + k
BpeVocabSizes == {0, 300} \cup {UnicodeLimit + k : k \in 1..MaxBpeMerges}

\* ids given to decode: chars of the corpora, ids learned tokens get, a
\* surrogate and the first number that is no code point
BpeDecodeIds == {97, 99, 100, 55296, UnicodeLimit}
BpeDecodeInputs == SeqsUpTo(BpeDecodeIds, 2)

\* encode and decode take &self: a run is followed up to its first encode
\* or decode call
BpeNoQuery == bpe.last.op \notin {"encode", "decode"}

\* Tokenizer::train, from the call to the entry of the merge loop
BpeTrain(train_texts, vocab_size) ==
    /\ bpe.pc = "idle"
    /\ BpeNoQuery
    /\ bpe.trains < MaxBpeTrains
    /\ bpe.train_chars + Len(Concat(train_texts)) <= MaxBpeTrainChars
    /\ LET vocab_size1 == IF vocab_size < 256 THEN 256 ELSE vocab_size
           wds == BPE_TrainWords(train_texts)
           tok == BPE_RegisterChars(Concat(wds), [bpe EXCEPT !.merges = EmptyMap])
           cnts == [k \in 1..Len(wds) |-> 1]
       IN \E cp \in count_pairs_parallel(wds, cnts) :
             bpe' = [BPE_StartCore(tok, wds, vocab_size1, cp) EXCEPT
                       !.pc = "loop",
                       !.last = Call("train", "running",
                                     [texts |-> train_texts, vocab_size |-> vocab_size], << >>),
                       !.v0 = Cardinality(DOMAIN tok.vocab.id_to_value),
                       !.trains = @ + 1,
                       !.train_chars = @ + Len(Concat(train_texts)),
                       !.corpus = {Concat(train_texts)[j] :
                                      j \in 1..Len(Concat(train_texts))}]
    /\ UNCHANGED <<bbpe_vars, twin, vm, vm_ret>>

\* one iteration of the merge loop of _train_core_incremental
BpeMergeStep ==
    /\ bpe.pc = "loop"
    /\ BPE_LoopRuns(bpe)
    /\ bpe' \in BPE_Iterate(bpe)
    /\ UNCHANGED <<bbpe_vars, twin, vm, vm_ret>>

\* the merge loop has ended: train returns Ok and the locals are dropped
BpeTrainEnd ==
    /\ bpe.pc = "loop"
    /\ ~BPE_LoopRuns(bpe)
    /\ bpe' = [bpe EXCEPT !.pc = "idle",
                          !.last = [@ EXCEPT !.status = "ok"],
                          !.words = << >>, !.pair_counts = EmptyMap, !.heap = EmptyBag,
                          !.merges_done = 0, !.num_merges = 0, !.cvec = << >>]
    /\ UNCHANGED <<bbpe_vars, twin, vm, vm_ret>>

\* Tokenizer::encode
BpeEncodeCall(text) ==
    /\ bpe.pc = "idle"
    /\ BpeNoQuery
    /\ bpe' = [bpe EXCEPT !.last = Call("encode", "ok", text,
                                        BPE_encode(text, bpe.vocab, bpe.merges))]
    /\ UNCHANGED <<bbpe_vars, twin, vm, vm_ret>>

\* training and queries
Next ==
    /\ \/ /\ pc = "idle" /\ NoQuery
          /\ \/ \E train_texts \in TrainInputs, vocab_size \in VocabSizes :
                   Train(train_texts, vocab_size, MaxTrains, MaxTrainBytes)
             \/ \E text \in Texts : EncodeCall(text)
             \/ \E tokens \in DecodeInputs : DecodeCall(tokens)
       \/ MergeStep
       \/ TrainEnd
    /\ UNCHANGED <<twin, vm, vm_ret, bpe>>

Spec == Init /\ [][Next]_vars

\* training alone; train runs its loop to the end once called, which is the
\* weak fairness of the loop iteration and of the return.  An iteration
\* changes merges_done or takes an entry off the heap, the return changes pc.
NextTrain ==
    /\ \/ /\ pc = "idle" /\ NoQuery
          /\ \E train_texts \in TrainInputs, vocab_size \in VocabSizes :
                Train(train_texts, vocab_size, MaxLiveTrains, MaxLiveTrainBytes)
       \/ MergeStep
       \/ TrainEnd
    /\ UNCHANGED <<twin, vm, vm_ret, bpe>>

SpecTrain ==
    /\ Init /\ [][NextTrain]_vars
    /\ WF_<<merges_done, BagCardinality(heap)>>(MergeStep)
    /\ WF_pc(TrainEnd)

\* training, saving and loading
NextIO ==
    /\ \/ /\ pc = "idle" /\ NoQuery
          /\ \E train_texts \in IOTrainInputs, vocab_size \in VocabSizes :
                Train(train_texts, vocab_size, MaxIOTrains, MaxIOTrainBytes)
       \/ MergeStep
       \/ TrainEnd
       \/ Save
       \/ Load
       \/ New
       \/ WriteForeign
    /\ UNCHANGED <<twin, vm, vm_ret, bpe>>

SpecIO == Init /\ [][NextIO]_vars

\* two runs of every training: the second run starts from the state the
\* first started from and makes its own choices; the runs share nothing, so
\* the second is stepped once the first has left its loop
TwinStep ==
    /\ pc = "loop"
    /\ ~LoopRuns(Cur)
    /\ LoopRuns(twin)
    /\ twin' \in Iterate(twin)
    /\ UNCHANGED <<bbpe_vars, vm, vm_ret, bpe>>

NextDet ==
    \/ /\ pc = "idle" /\ NoQuery
       /\ \E train_texts \in TrainInputs, vocab_size \in VocabSizes :
             Train(train_texts, vocab_size, MaxTrains, MaxTrainBytes)
       /\ IF pc' = "loop"
          THEN \E cp \in count_pairs_parallel(words', counts') :
                  twin' = StartCore(vocab', vocab_rev', words', counts', last'.arg, cp)
          ELSE twin' = NoTwin
       /\ UNCHANGED <<vm, vm_ret, bpe>>
    \/ MergeStep /\ UNCHANGED <<twin, vm, vm_ret, bpe>>
    \/ TwinStep
    \/ TrainEnd /\ ~LoopRuns(twin) /\ twin' = NoTwin /\ UNCHANGED <<vm, vm_ret, bpe>>

SpecDet == Init /\ [][NextDet]_vars

\* the training core on larger corpora: every text is one word of two
\* letters or more, and a corpus has MaxCoreBytes bytes at most
RECURSIVE Corpora(_)
Corpora(n) ==
    {<< >>} \cup UNION {{<<w>> \o rest : rest \in Corpora(n - Len(w))} :
                          w \in {x \in SeqsUpTo(Letters, n) : Len(x) >= 2}}

CoreInputs == Corpora(MaxCoreBytes) \ {<< >>}

NextCore ==
    /\ \/ /\ pc = "idle" /\ NoQuery
          /\ \E train_texts \in CoreInputs, vocab_size \in VocabSizes :
                Train(train_texts, vocab_size, MaxCoreTrains, MaxCoreBytes)
       \/ MergeStep
       \/ TrainEnd
    /\ UNCHANGED <<twin, vm, vm_ret, bpe>>

SpecCore == Init /\ [][NextCore]_vars

\* merge_pair on its own
NextWord ==
    /\ \/ \E ids \in WordInputs, pair \in WordIds \X WordIds, new_id \in NewIds :
             MergePairCall(ids, pair, new_id)
       \/ \E tokens \in SeqsUpTo(ApplyIds, MaxApplyLen), mrg \in ApplyTables :
             BpeApplyMergesCall(tokens, mrg)
    /\ UNCHANGED <<twin, vm, vm_ret, bpe>>

SpecWord == Init /\ [][NextWord]_vars

\* apply_merges alone
NextApply ==
    /\ \E ids \in SeqsUpTo(ApplyIds, MaxApplyLen), mrg \in ApplyTables :
          ApplyMergesCall(ids, mrg)
    /\ UNCHANGED <<twin, vm, vm_ret, bpe>>

SpecApply == Init /\ [][NextApply]_vars

\* count_pairs_parallel alone
NextCount ==
    /\ \E wds \in CountWords :
          \E cnts \in [1..Len(wds) -> {1, 2}] : CountPairsCall(wds, cnts)
    /\ UNCHANGED <<twin, vm, vm_ret, bpe>>

SpecCount == Init /\ [][NextCount]_vars

\* the VocabManager on its own
NextVM ==
    /\ \/ \E id \in VmIds, value \in VmValues : VmInsert(id, value)
       \/ \E id \in VmIds : VmRemoveById(id)
       \/ \E value \in VmValues : VmRemoveByValue(value)
       \/ VmClear
    /\ UNCHANGED <<bbpe_vars, twin, bpe>>

SpecVM == Init /\ [][NextVM]_vars

\* Tokenizer::train_from_iterator with the default buffer_size and pattern,
\* from the call to the entry of the merge loop: the pieces are counted, the
\* words and cvec are filled from the counts map in the order of its
\* iteration, and the words alone go to _train_core_incremental
StreamInputs == SeqsUpTo(TwoLetterWords, MaxStreamSeqs)

BpeTrainFromIterator(seqs, vocab_size) ==
    /\ bpe.pc = "idle"
    /\ BpeNoQuery
    /\ bpe.trains < MaxStreamTrains
    /\ LET chunk_counts == StreamCounts(seqs)
       IN \E wds \in IterOrders(DOMAIN chunk_counts) :
             LET cvec == [k \in 1..Len(wds) |-> chunk_counts[wds[k]]]
                 tok == BPE_RegisterChars(Concat(wds), bpe)
                 ones == [k \in 1..Len(wds) |-> 1]
             IN \E cp \in count_pairs_parallel(wds, ones) :
                   bpe' = [BPE_StartCore(tok, wds, vocab_size, cp) EXCEPT
                             !.pc = "loop",
                             !.last = Call("train_from_iterator", "running",
                                           [texts |-> seqs, vocab_size |-> vocab_size], << >>),
                             !.cvec = cvec,
                             !.v0 = Cardinality(DOMAIN tok.vocab.id_to_value),
                             !.trains = @ + 1,
                             !.train_chars = @ + Len(Concat(seqs)),
                             !.corpus = {Concat(seqs)[j] : j \in 1..Len(Concat(seqs))}]
    /\ UNCHANGED <<bbpe_vars, twin, vm, vm_ret>>

\* Tokenizer::decode: decode_internal has no failing path
BpeDecodeCall(tokens) ==
    /\ bpe.pc = "idle"
    /\ BpeNoQuery
    /\ bpe' = [bpe EXCEPT !.last = Call("decode", "ok", tokens,
                                        Ok(BPE_decode(tokens, bpe.vocab)))]
    /\ UNCHANGED <<bbpe_vars, twin, vm, vm_ret>>

\* the character-level Tokenizer: training, encode and decode
NextBPE ==
    \/ \E train_texts \in BpeTrainInputs, vocab_size \in BpeVocabSizes :
          BpeTrain(train_texts, vocab_size)
    \/ BpeMergeStep
    \/ BpeTrainEnd
    \/ \E text \in BpeTexts : BpeEncodeCall(text)
    \/ \E tokens \in BpeDecodeInputs : BpeDecodeCall(tokens)

SpecBPE == Init /\ [][NextBPE]_vars

\* the character-level Tokenizer trained from an iterator
NextStream ==
    \/ \E seqs \in StreamInputs, vocab_size \in BpeVocabSizes :
          BpeTrainFromIterator(seqs, vocab_size)
    \/ BpeMergeStep
    \/ BpeTrainEnd

SpecStream == Init /\ [][NextStream]_vars

\* ================================================================ properties

\* C1: on a tokenizer with the default pattern, after any trainings, an
\* encode call succeeds and decoding its ids gives back the text; and for
\* every pre-token of the text, the vocab tokens of the ids apply_merges
\* leaves for its bytes concatenate to the pre-token
C1_RoundTrip ==
    last.op = "encode" =>
        /\ last.res.ok
        /\ decode(last.res.out, vocab) = Ok(last.arg)
        /\ \A k \in 1..Len(split_text(last.arg)) :
              LET part == split_text(last.arg)[k]
                  ids == apply_merges(ByteIds(part, vocab_rev), merges)
              IN /\ \A j \in 1..Len(ids) : ids[j] \in DOMAIN vocab
                 /\ Concat([j \in 1..Len(ids) |-> vocab[ids[j]]]) = part

\* C1 witness: a text of two pre-tokens encoded after two trainings, with a
\* learned token among its ids
C1_Witness ==
    /\ last.op = "encode"
    /\ trains = 2
    /\ Len(split_text(last.arg)) = 2
    /\ \E k \in 1..Len(last.res.out) : last.res.out[k] >= ByteValues
    /\ decode(last.res.out, vocab) = Ok(last.arg)

\* C2: a trained tokenizer is saved and the file loaded into a freshly
\* constructed tokenizer: the load succeeds and the loaded tokenizer has the
\* vocab and the merges of the saved one
C2_SaveLoadIdentity ==
    (last.op = "load" /\ last.arg = TRUE /\ saved.trains > 0) =>
        /\ last.status = "ok"
        /\ vocab = saved.vocab
        /\ merges = saved.merges

\* C3: two runs of a training from the same state over the same words end
\* with the same merges and the same vocab, whatever entry the heap returns
\* among equal ones and however the parallel count is reduced
C3_TrainingDeterministic ==
    (pc = "loop" /\ ~LoopRuns(Cur) /\ ~LoopRuns(twin)) =>
        /\ merges = twin.merges
        /\ vocab = twin.vocab
        /\ vocab_rev = twin.vocab_rev

\* C3 witness: both runs are over with the same two rules, learned from a
\* text whose pairs started with equal counts
C3_Witness ==
    /\ pc = "loop" /\ ~LoopRuns(Cur) /\ ~LoopRuns(twin)
    /\ Cardinality(DOMAIN merges) = 2
    /\ LET w0 == TrainWords(texts, init_vocab.vocab_rev, << >>).words
       IN \E cp \in count_pairs_parallel(w0, [k \in 1..Len(w0) |-> 1]) :
             \E p, q \in DOMAIN cp.pair_counts :
                 p # q /\ cp.pair_counts[p] = cp.pair_counts[q]
    /\ merges = twin.merges

\* C4: at every boundary of the merge loop, each rule (a, b) -> c has a, b
\* and c in vocab and vocab[c] is vocab[a] followed by vocab[b]
C4_MergeRulesWellFormed ==
    \A p \in DOMAIN merges :
        /\ p[1] \in DOMAIN vocab
        /\ p[2] \in DOMAIN vocab
        /\ merges[p] \in DOMAIN vocab
        /\ vocab[merges[p]] = vocab[p[1]] \o vocab[p[2]]

\* C4 witness: inside the merge loop with two rules learned, the second
\* built on the token of the first
C4_Witness ==
    /\ pc = "loop"
    /\ merges_done = 2
    /\ \E p \in DOMAIN merges : p[1] >= ByteValues /\ vocab[p[1]] # vocab[p[2]]

\* C5: validate returns Ok on a VocabManager after any insert,
\* remove_by_id, remove_by_value and clear calls from the empty one
C5_VocabManagerValid == VocabManager_validate(vm) = {"ok"}

\* C5 witness: an insert has replaced the value of an id and the manager
\* holds two entries
C5_Witness ==
    /\ vm_ret # None
    /\ Cardinality(DOMAIN vm.id_to_value) = 2
    /\ Cardinality(DOMAIN vm.value_to_id) = 2

\* C6: vocab and vocab_rev are inverse of each other at all times: the maps
\* have the same size and vocab_rev[vocab[id]] = id for every id, so that no
\* two ids carry the same token
C6_VocabBijective ==
    /\ Cardinality(DOMAIN vocab) = Cardinality(DOMAIN vocab_rev)
    /\ \A id \in DOMAIN vocab :
          vocab[id] \in DOMAIN vocab_rev /\ vocab_rev[vocab[id]] = id

\* C7: a train call with a vocabulary size below 256 returns an error and
\* leaves vocab, vocab_rev, merges and the pattern as they were, and encode
\* succeeds on the tokenizer afterwards
C7_SmallVocabSizeRejected ==
    /\ [][(last'.op = "train" /\ last' # last /\ last'.arg < MinVocabSize) =>
             /\ last'.status = "err"
             /\ pc' = "idle"
             /\ UNCHANGED <<vocab, vocab_rev, merges, pattern>>]_vars
    /\ []((last.op = "train" /\ last.status = "err") =>
             \A text \in Texts : encode(text, vocab_rev, merges).ok)

\* C7 witness: the call is rejected on a tokenizer that holds learned rules
C7_Witness ==
    /\ last.op = "train"
    /\ last.status = "err"
    /\ last.arg < MinVocabSize
    /\ merges # EmptyMap
    /\ \A text \in Texts : encode(text, vocab_rev, merges).ok

\* C8: a train call with a vocabulary size of at least 256 but below the
\* current size of vocab returns an error before any work: nothing is
\* changed, no merge is run and the call does not panic
C8_ShrinkingVocabSizeRejected ==
    [][(last'.op = "train" /\ last' # last /\ pc = "idle"
        /\ last'.arg >= MinVocabSize /\ last'.arg < Cardinality(DOMAIN vocab)) =>
          /\ last'.status = "err"
          /\ pc' = "idle"
          /\ UNCHANGED <<vocab, vocab_rev, merges>>]_vars

\* C9: decode of ids with an id that is not in vocab fails, the error names
\* the first such id, and no text is returned, also when known ids precede it
C9_DecodeUnknownId ==
    (last.op = "decode" /\ \E k \in 1..Len(last.arg) : last.arg[k] \notin DOMAIN vocab) =>
        LET first == CHOOSE k \in 1..Len(last.arg) :
                        /\ last.arg[k] \notin DOMAIN vocab
                        /\ \A j \in 1..(k - 1) : last.arg[j] \in DOMAIN vocab
        IN /\ last.status = "err"
           /\ last.res = Err("IdNotFound", last.arg[first])

\* C9 witness: a known id followed by an unknown one
C9_Witness ==
    /\ last.op = "decode"
    /\ Len(last.arg) = 2
    /\ last.arg[1] \in DOMAIN vocab
    /\ last.arg[2] \notin DOMAIN vocab
    /\ last.res = Err("IdNotFound", last.arg[2])

\* C10: in every state, after any train, save and load calls, each of the
\* 256 single-byte tokens is in vocab_rev with an id that carries it in
\* vocab, and encode does not fail
C10_AllBytesPresent ==
    /\ \A b \in 0..(ByteValues - 1) :
          /\ <<b>> \in DOMAIN vocab_rev
          /\ vocab_rev[<<b>>] \in DOMAIN vocab
          /\ vocab[vocab_rev[<<b>>]] = <<b>>
    /\ \A text \in SeqsUpTo(Alphabet, MaxIOTrainBytes) : encode(text, vocab_rev, merges).ok

\* C11: a load call on a file that lacks the pattern line, the vocab section
\* or the merges section (such as a file whose only line is arbitrary text)
\* returns an error
C11_LoadRejectsMissingSections ==
    [][(last'.op = "load" /\ file' = file /\ file.exists
        /\ LET keys == {file.lines[k].key : k \in 1..Len(file.lines)}
           IN ~({"pattern:", "vocab:", "merges:"} \subseteq keys))
          => last'.status = "err"]_vars

\* C12: when the first train call on a freshly constructed tokenizer returns
\* Ok, the size of vocab is at least 256 and at most the requested size, and
\* it is 256 plus the number of merges the loop performed; with a requested
\* size of 256 no rule is learned and the size stays 256
C12_VocabSizeAfterTrain ==
    [][(pc = "loop" /\ pc' = "idle" /\ trains = 1) =>
          /\ last'.status = "ok"
          /\ Cardinality(DOMAIN vocab') >= MinVocabSize
          /\ Cardinality(DOMAIN vocab') <= last'.arg
          /\ Cardinality(DOMAIN vocab') = ByteValues + merges_done
          /\ (last'.arg = MinVocabSize =>
                 merges' = EmptyMap /\ Cardinality(DOMAIN vocab') = MinVocabSize)]_vars

\* C12 witness: the first training has returned Ok with the vocabulary grown
\* to the requested size of 258
C12_Witness ==
    /\ pc = "idle"
    /\ trains = 1
    /\ last.op = "train" /\ last.status = "ok"
    /\ last.arg = MinVocabSize + 2
    /\ Cardinality(DOMAIN vocab) = last.arg

\* C13: when the train call on an already trained tokenizer returns, vocab
\* and merges are those of a freshly constructed tokenizer trained with the
\* same texts and the same vocabulary size
C13_RetrainResets ==
    [][(pc = "loop" /\ pc' = "idle" /\ trains = 2) =>
          LET f == train_fresh(texts, last.arg)
          IN vocab' = f.vocab /\ merges' = f.merges]_vars

C15_SmallestIdWins ==
    last.op = "encode" =>
        \A k \in 1..Len(split_text(last.arg)) :
            LET ids == ByteIds(split_text(last.arg)[k], vocab_rev)
                scan == ScanMerges(ids, 0, merges)
                chosen == {scan[j][1] : j \in 1..Len(scan)}
                rule(i) == <<ids[i + 1], ids[i + 2]>>
            IN \A i \in 0..(Len(ids) - 3) :
                  (rule(i) \in DOMAIN merges /\ rule(i + 1) \in DOMAIN merges) =>
                      /\ merges[rule(i)] < merges[rule(i + 1)] => i \in chosen
                      /\ merges[rule(i + 1)] < merges[rule(i)] =>
                            ((i + 1) \in chosen /\ i \notin chosen)

\* C15 amended: in every pass of apply_merges over a pre-token of an encode
\* call, a position whose pair has a rule is applied exactly when the position
\* before it is not applied in that pass, with the new id of its rule: of two
\* overlapping positions the left one wins, whatever the new ids
C15_LeftmostRuleWins ==
    last.op = "encode" =>
        \A k \in 1..Len(split_text(last.arg)) :
            LET RECURSIVE PassOk(_)
                PassOk(ids) ==
                    LET scan == ScanMerges(ids, 0, merges)
                        chosen == {scan[j][1] : j \in 1..Len(scan)}
                    IN /\ \A i \in 0..(Len(ids) - 2) :
                             (i \in chosen) <=>
                                 (<<ids[i + 1], ids[i + 2]>> \in DOMAIN merges
                                  /\ (i - 1) \notin chosen)
                       /\ \A j \in 1..Len(scan) :
                             scan[j][2] = merges[<<ids[scan[j][1] + 1], ids[scan[j][1] + 2]>>]
                       /\ (Len(scan) = 0 \/ PassOk(RebuildIds(ids, 0, scan, 0)))
            IN PassOk(ByteIds(split_text(last.arg)[k], vocab_rev))

\* C15 witness: an encode call on a pre-token of three bytes whose two
\* pairs both have a rule, the right one the smaller new id, and the left
\* rule is the one applied
C15_Witness ==
    /\ last.op = "encode"
    /\ Len(last.arg) = 3
    /\ Len(split_text(last.arg)) = 1
    /\ LET ids == ByteIds(last.arg, vocab_rev)
       IN /\ <<ids[1], ids[2]>> \in DOMAIN merges
          /\ <<ids[2], ids[3]>> \in DOMAIN merges
          /\ merges[<<ids[2], ids[3]>>] < merges[<<ids[1], ids[2]>>]
          /\ last.res.out = <<merges[<<ids[1], ids[2]>>], ids[3]>>

\* C16: merge_pair((a, a), x) with x # a on a word of n >= 2 copies of a
\* makes n div 2 replacements and leaves n div 2 copies of x followed by
\* n mod 2 copies of a: four copies collapse to two merged ids
C16_RepeatedIdMerge ==
    (/\ last.op = "merge_pair"
     /\ Len(last.arg.ids) >= 2
     /\ \A k \in 1..Len(last.arg.ids) : last.arg.ids[k] = last.arg.pair[1]
     /\ last.arg.pair[2] = last.arg.pair[1]
     /\ last.arg.new_id # last.arg.pair[1]) =>
        LET n == Len(last.arg.ids)
            a == last.arg.pair[1]
            x == last.arg.new_id
        IN /\ last.status = "ok"
           /\ Len(last.arg.ids) - Len(last.res.ids) = n \div 2
           /\ last.res.ids = [k \in 1..((n \div 2) + (n % 2)) |->
                                 IF k <= n \div 2 THEN x ELSE a]

\* C16 witness: four copies of an id have collapsed to two merged ids
C16_Witness ==
    /\ last.op = "merge_pair"
    /\ last.arg.ids = <<97, 97, 97, 97>>
    /\ last.arg.pair = <<97, 97>>
    /\ last.arg.new_id = 256
    /\ last.res.ids = <<256, 256>>

C18_InsertContract ==
    [][\A id \in VmIds, tok \in VmValues :
          VmInsert(id, tok) =>
              LET i2v == vm.id_to_value
                  v2i == vm.value_to_id
                  old_tok == IF id \in DOMAIN i2v /\ i2v[id] # tok THEN {i2v[id]} ELSE {}
                  old_id == IF tok \in DOMAIN v2i /\ v2i[tok] # id THEN {v2i[tok]} ELSE {}
              IN /\ vm_ret' = IF id \in DOMAIN i2v THEN Some(i2v[id]) ELSE None
                 /\ id \in DOMAIN vm'.id_to_value /\ vm'.id_to_value[id] = tok
                 /\ tok \in DOMAIN vm'.value_to_id /\ vm'.value_to_id[tok] = id
                 /\ \A t \in old_tok :
                       /\ t \notin DOMAIN vm'.value_to_id
                       /\ \A j \in DOMAIN vm'.id_to_value : vm'.id_to_value[j] # t
                 /\ \A j \in old_id :
                       /\ j \notin DOMAIN vm'.id_to_value
                       /\ \A t \in DOMAIN vm'.value_to_id : vm'.value_to_id[t] # j
                 /\ DOMAIN vm'.id_to_value = ((DOMAIN i2v) \ old_id) \cup {id}
                 /\ DOMAIN vm'.value_to_id = ((DOMAIN v2i) \ old_tok) \cup {tok}
                 /\ \A j \in (DOMAIN vm'.id_to_value) \ {id} : vm'.id_to_value[j] = i2v[j]
                 /\ \A t \in (DOMAIN vm'.value_to_id) \ {tok} : vm'.value_to_id[t] = v2i[t]]_vars

\* C18 witness: an insert has given its id another token: the former token
\* was returned and is gone, and the one entry left is found in both
\* directions
C18_Witness ==
    /\ vm_ret \in {Some(t) : t \in VmValues}
    /\ Cardinality(DOMAIN vm.id_to_value) = 1
    /\ vm_ret[2] \notin DOMAIN vm.value_to_id
    /\ \E id \in DOMAIN vm.id_to_value : vm.value_to_id[vm.id_to_value[id]] = id

\* C19: on a character-level BPE Tokenizer that has been trained, with any
\* target size, decode gives back the text of an encode call whenever every
\* char of the text occurs in the corpus of the last training
C19_BpeRoundTrip ==
    (/\ bpe.last.op = "encode"
     /\ bpe.trains >= 1
     /\ \A j \in 1..Len(bpe.last.arg) : bpe.last.arg[j] \in bpe.corpus)
    => BPE_decode(bpe.last.res, bpe.vocab) = bpe.last.arg

\* C20: in the training of the character-level BPE Tokenizer, at every
\* boundary of an iteration of the merge loop, the new id and the two halves
\* of every recorded rule are ids of the vocabulary
C20_BpeRulesInVocab ==
    bpe.pc = "loop" =>
        \A p \in DOMAIN bpe.merges :
            /\ bpe.merges[p] \in DOMAIN bpe.vocab.id_to_value
            /\ p[1] \in DOMAIN bpe.vocab.id_to_value
            /\ p[2] \in DOMAIN bpe.vocab.id_to_value

\* C21: a training of the character-level BPE Tokenizer with target size V
\* leaves its merge loop only when V - V0 merges have been done or the heap
\* is empty, V0 being the size of the vocabulary once the chars of the
\* corpus are in it; so with V > V0 and a word of two chars or more in the
\* corpus, the training learns a rule
C21_BpeMergeBudget ==
    (bpe.pc = "loop" /\ ~BPE_LoopRuns(bpe)) =>
        LET V == bpe.last.arg.vocab_size
            wds == BPE_TrainWords(bpe.last.arg.texts)
        IN /\ V >= bpe.v0 => (bpe.merges_done = V - bpe.v0 \/ bpe.heap = EmptyBag)
           /\ (V > bpe.v0 /\ \E k \in 1..Len(wds) : Len(wds[k]) >= 2)
                 => bpe.merges # EmptyMap

\* C23: decode of the character-level BPE Tokenizer fails with an
\* id-not-found error that names the id when one of the ids given is no id
\* of the vocabulary
C23_BpeDecodeUnknownId ==
    (/\ bpe.last.op = "decode"
     /\ \E k \in 1..Len(bpe.last.arg) : bpe.last.arg[k] \notin DOMAIN bpe.vocab.id_to_value)
    => LET unknown == {k \in 1..Len(bpe.last.arg) :
                          bpe.last.arg[k] \notin DOMAIN bpe.vocab.id_to_value}
           first == CHOOSE k \in unknown : \A j \in unknown : k <= j
       IN /\ ~bpe.last.res.ok
          /\ bpe.last.res.kind = "IdNotFound"
          /\ bpe.last.res.id = bpe.last.arg[first]

\* C22: train_from_iterator runs the merge loop on the counted pre-tokens:
\* when the loop is entered the count of every pair is the sum, over the
\* unique pre-tokens, of its occurrences in the pre-token times the number of
\* times the pre-token occurs in the input (cvec); and a merge changes the
\* count of every other pair of a word by the change of its occurrences in
\* the word times that number
C22_StreamCountsWeighted ==
    [][LET CountOf(t, p) == IF p \in DOMAIN t.pair_counts THEN t.pair_counts[p] ELSE 0
           Weighted(t, p) ==
               SumFn([k \in 1..Len(t.words) |-> Occurrences(p, t.words[k]) * t.cvec[k]])
           PairsOf(t) == UNION {pairs(t.words[k]) : k \in 1..Len(t.words)}
           Entered == bpe.pc = "idle" /\ bpe'.pc = "loop"
                      /\ bpe'.last.op = "train_from_iterator"
           Merged == bpe.pc = "loop" /\ bpe.last.op = "train_from_iterator"
                     /\ bpe'.merges_done = bpe.merges_done + 1
       IN /\ Entered => \A p \in PairsOf(bpe') :
                            CountOf(bpe', p) = Weighted(bpe', p)
          /\ Merged => \A p \in (PairsOf(bpe) \cup PairsOf(bpe')) \ DOMAIN bpe'.merges :
                            CountOf(bpe', p) - CountOf(bpe, p)
                                = Weighted(bpe', p) - Weighted(bpe, p)]_vars

\* C24: at every boundary of an iteration of the merge loop of BBPE training,
\* the count pair_counts holds for a pair, merged pairs included, is the sum
\* over the words of counts[i] times the adjacent occurrences of the pair in
\* words[i], and the pair has no entry exactly when that sum is 0
C24_PairCountsExact ==
    pc = "loop" =>
        LET Live(p) == SumFn([i \in 1..Len(words) |-> counts[i] * Occurrences(p, words[i])])
            AllPairs == (DOMAIN pair_counts) \cup (DOMAIN merges)
                        \cup UNION {pairs(words[i]) : i \in 1..Len(words)}
        IN \A p \in AllPairs :
              /\ (p \notin DOMAIN pair_counts) <=> (Live(p) = 0)
              /\ p \in DOMAIN pair_counts => pair_counts[p] = Live(p)

\* C25: every MergeJob pushed on the heap, when the heap is built and in
\* every iteration of the merge loop, has as positions exactly the indices
\* of the words that hold an occurrence of its pair when it is pushed
C25_PushedPositionsExact ==
    [][LET Pushed == IF pc = "idle" THEN BagToSet(heap')
                     ELSE {e \in BagToSet(heap') : CopiesIn(e, heap') > CopiesIn(e, heap)}
           Holders(p) == {i - 1 : i \in {j \in 1..Len(words') : p \in pairs(words'[j])}}
       IN pc' = "loop" => \A e \in Pushed : e.pos = Holders(e.pair)]_vars

\* C26: once a MergeJob has been pushed for a pair, no entry pushed for that
\* pair before passes the staleness check again, so that an accepted entry
\* is the last one pushed for its pair.  In every iteration of the merge
\* loop: the entries a push finds in the heap for its pair have a count
\* other than the live count of the pair; an entry that fails the
\* staleness check fails it in the next state as well; and a pair has at
\* most one entry with the live count in the heap
C26_OnlyNewestEntryAccepted ==
    [][LET Pushed == IF pc = "idle" THEN BagToSet(heap')
                     ELSE {e \in BagToSet(heap') : CopiesIn(e, heap') > CopiesIn(e, heap)}
           Passes(e, cnt) == e.pair \in DOMAIN cnt /\ cnt[e.pair] = e.count
       IN pc' = "loop" =>
             /\ \A e \in Pushed :
                   /\ Passes(e, pair_counts')
                   /\ \A old \in BagToSet(heap') :
                         (old.pair = e.pair /\ old # e) => ~Passes(old, pair_counts')
             /\ pc = "loop" =>
                   \A e \in BagToSet(heap) \cap BagToSet(heap') :
                      ~Passes(e, pair_counts) => ~Passes(e, pair_counts')
             /\ \A e1, e2 \in BagToSet(heap') :
                   (e1.pair = e2.pair /\ Passes(e1, pair_counts') /\ Passes(e2, pair_counts'))
                       => (e1 = e2 /\ CopiesIn(e1, heap') = 1)]_vars

\* C26 witness: a job has just been pushed for a pair that has an older
\* entry in the heap, and a merge has been accepted
C26_Witness ==
    /\ pc = "loop"
    /\ merges_done >= 1
    /\ \E e1, e2 \in BagToSet(heap) :
          /\ e1.pair = e2.pair
          /\ e1.count > e2.count
          /\ e2.pair \in DOMAIN pair_counts
          /\ pair_counts[e2.pair] = e2.count

\* C27 as stated: when the merge loop of BBPE training ends, every entry
\* still in the heap is stale: its pair has no pair_counts entry, or a count
\* other than the count of the entry
C27_HeapStaleAtEnd ==
    [][(pc = "loop" /\ pc' = "idle") =>
          \A e \in BagToSet(heap) :
             e.pair \notin DOMAIN pair_counts \/ pair_counts[e.pair] # e.count]_vars

\* C27: the merge loop of BBPE training ends with num_merges merges done or
\* with an empty heap; when it ends on the number of merges the heap can hold
\* entries that are not stale, and every such entry is the only entry of its
\* pair that is not stale and stands for a pair found in the words or merged before
C27_LoopEndsOnBudgetOrEmptyHeap ==
    [][(pc = "loop" /\ pc' = "idle") =>
          /\ merges_done = num_merges \/ heap = EmptyBag
          /\ \A e \in BagToSet(heap) :
                (e.pair \in DOMAIN pair_counts /\ pair_counts[e.pair] = e.count) =>
                   /\ CopiesIn(e, heap) = 1
                   /\ \A e2 \in BagToSet(heap) :
                         (e2.pair = e.pair /\ e2 # e) => e2.count # e.count
                   /\ \/ e.pair \in DOMAIN merges
                      \/ \E i \in 1..Len(words) : e.pair \in pairs(words[i])]_vars

\* C27 witness: the loop has done its num_merges merges and the heap holds an
\* entry that is not stale
C27_Witness ==
    /\ pc = "loop"
    /\ num_merges >= 1
    /\ merges_done = num_merges
    /\ \E e \in BagToSet(heap) :
          e.pair \in DOMAIN pair_counts /\ pair_counts[e.pair] = e.count

\* C28: at every boundary of an iteration of the merge loop of BBPE training
\* pair_counts has no entry of 0 or below: a pair whose count drops to 0 or
\* below when the counts are published leaves pair_counts, and no MergeJob is
\* pushed for it
C28_PairCountsPositive ==
    [][LET Pushed == IF pc = "idle" THEN BagToSet(heap')
                     ELSE {e \in BagToSet(heap') : CopiesIn(e, heap') > CopiesIn(e, heap)}
       IN pc' = "loop" =>
             /\ \A p \in DOMAIN pair_counts' : pair_counts'[p] > 0
             /\ \A e \in Pushed : e.count > 0 /\ e.pair \in DOMAIN pair_counts'
             /\ pc = "loop" =>
                   \A p \in (DOMAIN pair_counts) \ (DOMAIN pair_counts') :
                      \A e \in Pushed : e.pair # p]_vars

\* C28 witness: a merge has taken the last occurrence of a pair: the pair
\* has left pair_counts and only its entry of the heap build is left
C28_Witness ==
    /\ pc = "loop"
    /\ merges_done >= 1
    /\ \E e \in BagToSet(heap) :
          /\ e.pair \notin DOMAIN pair_counts
          /\ e.pair \notin DOMAIN merges
          /\ \A i \in 1..Len(words) : e.pair \notin pairs(words[i])

\* C29: an iteration of the merge loop pops one entry; no entry of the heap
\* has a greater count, and of the entries with that count none has a pair
\* that is smaller (left id first, then right id).  The order of MergeJob is
\* total on (count, pair): two jobs compare equal exactly when they agree on
\* both, the comparison is antisymmetric and transitive, and the positions
\* of a job change nothing
C29_PopMaxCountSmallestPair ==
    [][(pc = "loop" /\ pc' # "idle") =>
          LET H == BagToSet(heap)
              Popped == {e \in H : CopiesIn(e, heap') < CopiesIn(e, heap)}
              NoPos(x) == [x EXCEPT !.pos = {}]
          IN /\ \E e \in Popped :
                   /\ Popped = {e}
                   /\ CopiesIn(e, heap') = CopiesIn(e, heap) - 1
                   /\ \A y \in H :
                         /\ y.count <= e.count
                         /\ y.count = e.count =>
                               \/ e.pair[1] < y.pair[1]
                               \/ e.pair[1] = y.pair[1] /\ e.pair[2] <= y.pair[2]
             /\ \A x, y \in H :
                   /\ MergeJobCmp(x, y) = 0 - MergeJobCmp(y, x)
                   /\ (MergeJobCmp(x, y) = 0) <=> (x.count = y.count /\ x.pair = y.pair)
                   /\ MergeJobCmp(NoPos(x), y) = MergeJobCmp(x, y)
                   /\ MergeJobCmp(x, NoPos(y)) = MergeJobCmp(x, y)
                   /\ \A z \in H :
                         (MergeJobCmp(x, y) <= 0 /\ MergeJobCmp(y, z) <= 0)
                             => MergeJobCmp(x, z) <= 0]_vars

\* C29 witness: after a merge, the entries of the greatest count in the heap
\* are entries of two pairs, and the loop goes on to pop one
C29_Witness ==
    /\ pc = "loop"
    /\ merges_done >= 1
    /\ U32Less(merges_done, num_merges)
    /\ \E e1, e2 \in BagToSet(heap) :
          /\ e1.pair # e2.pair
          /\ e1.count = e2.count
          /\ \A y \in BagToSet(heap) : y.count <= e1.count

\* C30: in BBPE training the k-th accepted merge, k from 0, gets the id
\* V0 + k, V0 being the size of the vocabulary when the merge loop starts:
\* the id is above the id of every rule recorded in this training, is no id
\* of the vocabulary before the merge and is the one id added by it, also in
\* a training of a tokenizer that was trained before
C30_NewIdsFresh ==
    [][/\ (pc = "idle" /\ pc' = "loop") =>
             initial_vocab_size' = Cardinality(DOMAIN vocab')
       /\ (pc = "loop" /\ merges_done' = merges_done + 1) =>
             LET new_id == initial_vocab_size + merges_done
             IN /\ initial_vocab_size' = initial_vocab_size
                /\ new_id \notin DOMAIN vocab
                /\ DOMAIN vocab' = (DOMAIN vocab) \cup {new_id}
                /\ \A q \in DOMAIN merges : merges[q] < new_id
                /\ \E p \in DOMAIN merges' :
                      /\ merges'[p] = new_id
                      /\ \A q \in (DOMAIN merges') \ {p} :
                            q \in DOMAIN merges /\ merges'[q] = merges[q]]_vars

\* C30 witness: a merge accepted in the training of a tokenizer that holds
\* a token of an earlier training
C30_Witness ==
    /\ pc = "loop"
    /\ trains = 2
    /\ initial_vocab_size > ByteValues
    /\ merges_done >= 1
    /\ (initial_vocab_size + merges_done - 1) \in DOMAIN vocab

\* ------------------------------------------------------------------- C31
\* C31: every map count_pairs_parallel can return for the words and counts
\* of a call, whatever the split of the words among the workers and the order
\* of the reduce, holds for every pair of the words the sum over the word
\* indices of counts[i] times its occurrences in words[i], and no other pair;
\* the call leaves the words, the counts and the tokenizer as they were
C31_CountsAreWeightedSums ==
    last.op = "count_pairs_parallel" =>
        LET wds == last.arg.words
            cnts == last.arg.counts
            all == UNION {pairs(wds[i]) : i \in 1..Len(wds)}
        IN /\ \A cp \in count_pairs_parallel(wds, cnts) :
                 cp.pair_counts =
                    [p \in all |-> SumFn([i \in 1..Len(wds) |->
                                             cnts[i] * Occurrences(p, wds[i])])]
           /\ last.res \in count_pairs_parallel(wds, cnts)
           /\ vocab = init_vocab.vocab /\ merges = EmptyMap /\ words = << >>

\* a call with three words and a count above 1, one word holding a pair
\* twice and two words sharing a pair
C31_Witness ==
    /\ last.op = "count_pairs_parallel"
    /\ Len(last.arg.words) = 3
    /\ last.arg.counts[1] = 2
    /\ Occurrences(<<97, 97>>, last.arg.words[1]) = 2
    /\ Occurrences(<<97, 98>>, last.arg.words[2]) = 1
    /\ Occurrences(<<97, 98>>, last.arg.words[3]) = 1
    /\ last.res.pair_counts[<<97, 97>>] = 4
    /\ last.res.pair_counts[<<97, 98>>] = last.arg.counts[2] + last.arg.counts[3]

C33_StalePopChangesHeapOnly ==
    [][(pc = "loop" /\ pc' # "idle") =>
         LET stale == {top \in HeapTops(heap) : IsStale(Cur, top)}
         IN /\ stale # {} =>
                  /\ \E top \in stale : heap' = HeapRemove(heap, top)
                  /\ UNCHANGED <<words, counts, pair_counts, vocab, vocab_rev,
                                 merges, merges_done>>
            /\ (words' # words \/ vocab' # vocab \/ vocab_rev' # vocab_rev) =>
                  /\ stale = {}
                  /\ merges_done' = merges_done + 1
                  /\ \E top \in HeapTops(heap) :
                        /\ top.pair \in DOMAIN merges'
                        /\ merges'[top.pair] = initial_vocab_size + merges_done]_vars

\* C33 witness: the loop is about to pop a stale entry after a merge, with
\* a live entry waiting behind it
C33_Witness ==
    /\ pc = "loop"
    /\ merges_done >= 1
    /\ LoopRuns(Cur)
    /\ \A top \in HeapTops(heap) : IsStale(Cur, top)
    /\ \E x \in BagToSet(heap) : ~IsStale(Cur, x)

\* ------------------------------------------------------------------- C34
\* C34: apply_merges returns for every id sequence and every merge table,
\* after at most as many passes as the sequence has ids; a pass chooses
\* position i exactly when the pair at i is a key of the table and position
\* i - 1 has not been chosen, puts the rule's id in the place of each chosen
\* pair and keeps the other ids in order; the returned sequence holds no
\* adjacent pair that is a key of the table
C34_ApplyMergesGreedyFixpoint ==
    last.op = "apply_merges" =>
        LET mrg == last.arg.merges
            n == Len(last.arg.ids)
            IsKey(x, i) == i >= 0 /\ i + 2 <= Len(x) /\ <<x[i + 1], x[i + 2]>> \in DOMAIN mrg
            Pass(x) ==
                LET c[i \in -1..(Len(x) - 1)] == i >= 0 /\ IsKey(x, i) /\ ~c[i - 1]
                    chosen == {i \in 0..(Len(x) - 1) : c[i]}
                    kept == {i \in 0..(Len(x) - 1) : (i - 1) \notin chosen}
                    at == [j \in 1..Cardinality(kept) |->
                              CHOOSE i \in kept : Cardinality({k \in kept : k < i}) = j - 1]
                IN [j \in 1..Cardinality(kept) |->
                       IF at[j] \in chosen THEN mrg[<<x[at[j] + 1], x[at[j] + 2]>>]
                       ELSE x[at[j] + 1]]
            Passes(k) == LET p[j \in 0..k] == IF j = 0 THEN <<last.arg.ids>>
                                              ELSE Append(p[j - 1], Pass(p[j - 1][j]))
                         IN p[k]
            chain == Passes(n)
        IN /\ last.res.inherent = chain[n + 1]
           /\ last.res.trait = chain[n + 1]
           /\ \A k \in 1..n : \/ Len(chain[k + 1]) < Len(chain[k])
                                \/ chain[k + 1] = chain[n + 1]
           /\ \A i \in 0..(Len(chain[n + 1]) - 1) : ~IsKey(chain[n + 1], i)

\* C34 witness: a table not learned by any training, (97,97) -> 97 and
\* (97,256) -> 256, has taken [97,97,97,256] to [256] in two passes
C34_Witness ==
    /\ last.op = "apply_merges"
    /\ last.arg.ids = <<97, 97, 97, 256>>
    /\ DOMAIN last.arg.merges = {<<97, 97>>, <<97, 256>>}
    /\ last.arg.merges[<<97, 97>>] = 97
    /\ last.arg.merges[<<97, 256>>] = 256
    /\ last.res.inherent = <<256>>
    /\ apply_merges_OnePass(last.arg.ids, last.arg.merges) = <<97, 256>>

\* ------------------------------------------------------------------- C35
\* C35: right after an iteration of the merge loop has accepted a pair
\* (a,b) and applied it, no word of the training corpus holds a followed
\* immediately by b
C35_MergeComplete ==
    [][(pc = "loop" /\ pc' = "loop" /\ merges_done' = merges_done + 1) =>
         \A top \in HeapTops(heap) :
             (top.pair \in DOMAIN merges'
              /\ merges'[top.pair] = initial_vocab_size + merges_done) =>
                 \A i \in 1..Len(words') : Occurrences(top.pair, words'[i]) = 0]_vars

\* ------------------------------------------------------------------- C36
\* C36: no pair is accepted twice in one training: every accepted merge adds
\* a key to merges, so during and at the end of the merge loop merges holds
\* as many rules as merges have been done and every id learned so far is the
\* target of exactly one rule
C36_NoPairAcceptedTwice ==
    pc = "loop" =>
        /\ Cardinality(DOMAIN merges) = merges_done
        /\ Cardinality(DOMAIN vocab) - initial_vocab_size = merges_done
        /\ \A id \in initial_vocab_size..(initial_vocab_size + merges_done - 1) :
              Cardinality({p \in DOMAIN merges : merges[p] = id}) = 1

\* ------------------------------------------------------------------- C37
\* C37: when a training returns, the greedy apply_merges with the learned
\* rules takes the byte ids of every pre-token of the training corpus to
\* the ids the word of that pre-token ended the training with
C37_TrainEncodeConsistent ==
    [][(pc = "loop" /\ pc' = "idle") =>
         LET pre_tokens == TrainWords(texts, init_vocab.vocab_rev, << >>).words
         IN \A i \in 1..Len(words) : apply_merges(pre_tokens[i], merges') = words[i]]_vars

\* ------------------------------------------------------------------- C38
\* C38: at every point of the merge loop every word holds at least one id,
\* every id of a word is in vocab, and the tokens of the ids of words[i],
\* put one after the other, are the bytes of pre-token i of the texts
C38_WordsSpellPreTokens ==
    pc = "loop" =>
        LET pre_tokens == TrainWords(texts, init_vocab.vocab_rev, << >>).words
        IN /\ Len(words) = Len(pre_tokens)
           /\ \A i \in 1..Len(words) :
                 /\ Len(words[i]) >= 1
                 /\ \A k \in 1..Len(words[i]) : words[i][k] \in DOMAIN vocab
                 /\ Concat([k \in 1..Len(words[i]) |-> vocab[words[i][k]]]) = pre_tokens[i]

\* C38 witness: two merges have taken a word of three bytes to a single id
\* whose token is made of a learned token and a byte
C38_Witness ==
    /\ pc = "loop"
    /\ merges_done = 2
    /\ \E i \in 1..Len(words) :
          /\ Len(words[i]) = 1
          /\ words[i][1] >= ByteValues
          /\ Len(vocab[words[i][1]]) = 3

\* ------------------------------------------------------------------- C39
\* C39: a load that returns an error leaves the pattern, the vocabulary
\* (vocab and vocab_rev) and the merge rules as they were before the call
C39_FailedLoadAtomic ==
    [][(last'.op = "load" /\ last'.status = "err") =>
          UNCHANGED <<pattern, vocab, vocab_rev, merges>>]_vars

\* ------------------------------------------------------------------- C40
\* C40: merge_pair on a word of no id or one id returns with an empty delta
\* list and the word as it was, and _apply_merges of the character-level
\* tokenizer on an empty token list with a merge table that is not empty
\* returns the empty list
C40_ShortWordsUntouched ==
    /\ (last.op = "merge_pair" /\ Len(last.arg.ids) <= 1) =>
          /\ last.status = "ok"
          /\ last.res.deltas = << >>
          /\ last.res.ids = last.arg.ids
    /\ (last.op = "_apply_merges" /\ last.arg.tokens = << >>
           /\ DOMAIN last.arg.merges # {}) =>
          /\ last.status = "ok"
          /\ last.res = << >>

====
